---- MODULE Spec2Model ----
(***************************************************************************)
(* QGraphic: the tree-walking interpreter (eager mode and the generator    *)
(* based stepping mode) together with the Frame engine it drives.          *)
(*                                                                         *)
(* The eager interpreter (execute_program and everything it calls) is      *)
(* modelled by recursive operators over a world record, one operator per   *)
(* Python function.  The stepping interpreter (execute_program_steps and   *)
(* the generators it delegates to with `yield from`) is modelled as a      *)
(* state machine: `ctl` is what the running generator is about to do,      *)
(* `stack` holds the suspended generator frames, and one transition is one *)
(* piece of straight-line code between two delegation points.              *)
(***************************************************************************)
EXTENDS Integers, Sequences, FiniteSets, TLC

\* ---------------------------------------------------------------------
\* Program constants
\* ---------------------------------------------------------------------
Width == 64
Height == 32

\* ---------------------------------------------------------------------
\* Bounds of the model
\* ---------------------------------------------------------------------
\* largest iteration count of the generated While programs
MaxIter == 2
\* largest list length of the generated For programs
MaxItems == 2

\* ---------------------------------------------------------------------
\* AST nodes (parser.py dataclasses).  NoNode stands for Python's None in
\* an optional child expression (VarDecl.value, ReturnStmt.expr).
\* ---------------------------------------------------------------------
NoNode == [k |-> "NoNode"]
\* None in place of a list of statements (IfStmt.else_body)
NoBody == <<NoNode>>

Literal(value, line) == [k |-> "Literal", value |-> value, line |-> line]
Var(name, line) == [k |-> "Var", name |-> name, line |-> line]
UnaryOp(op, expr, line) == [k |-> "UnaryOp", op |-> op, expr |-> expr, line |-> line]
BinaryOp(op, left, right, line) ==
    [k |-> "BinaryOp", op |-> op, left |-> left, right |-> right, line |-> line]
IndexExpr(base, index, line) == [k |-> "IndexExpr", base |-> base, index |-> index, line |-> line]
CallExpr(name, args, line) == [k |-> "CallExpr", name |-> name, args |-> args, line |-> line]
ColorLit(r, g, b, line) == [k |-> "ColorLit", r |-> r, g |-> g, b |-> b, line |-> line]
PixelLit(x, y, line) == [k |-> "PixelLit", x |-> x, y |-> y, line |-> line]
ListLit(items, line) == [k |-> "ListLit", items |-> items, line |-> line]
ParenExpr(expr, line) == [k |-> "ParenExpr", expr |-> expr, line |-> line]
WalrusAssign(name, expr, line) == [k |-> "WalrusAssign", name |-> name, expr |-> expr, line |-> line]
WalrusDecl(type_name, name, expr, line) ==
    [k |-> "WalrusDecl", type_name |-> type_name, name |-> name, expr |-> expr, line |-> line]

VarDecl(type_name, name, value, line) ==
    [k |-> "VarDecl", type_name |-> type_name, name |-> name, value |-> value, line |-> line]
Assign(target, value, line) == [k |-> "Assign", target |-> target, value |-> value, line |-> line]
PixelAssign(pointer, value, line) ==
    [k |-> "PixelAssign", pointer |-> pointer, value |-> value, line |-> line]
PublishStmt(expr, line) == [k |-> "PublishStmt", expr |-> expr, line |-> line]
SendStmt(expr, line) == [k |-> "SendStmt", expr |-> expr, line |-> line]
ReturnStmt(expr, line) == [k |-> "ReturnStmt", expr |-> expr, line |-> line]
ExprStmt(expr, line) == [k |-> "ExprStmt", expr |-> expr, line |-> line]
IfStmt(condition, then_body, else_body, line) ==
    [k |-> "IfStmt", condition |-> condition, then_body |-> then_body,
     else_body |-> else_body, line |-> line]
WhileStmt(condition, body, line) ==
    [k |-> "WhileStmt", condition |-> condition, body |-> body, line |-> line]
\* type_name "" stands for None (no type keyword before the loop variable)
ForStmt(type_name, var_name, iterable, body, line) ==
    [k |-> "ForStmt", type_name |-> type_name, var_name |-> var_name, iterable |-> iterable,
     body |-> body, line |-> line]
Param(type_name, name, line) == [type_name |-> type_name, name |-> name, line |-> line]
FunctionDecl(name, params, return_type, body, line) ==
    [k |-> "FunctionDecl", name |-> name, params |-> params, return_type |-> return_type,
     body |-> body, line |-> line]

SimpleKinds == {"VarDecl", "Assign", "PixelAssign", "PublishStmt", "SendStmt",
                "ReturnStmt", "ExprStmt"}

\* ---------------------------------------------------------------------
\* Runtime values.  Lists and Frames are mutable Python objects: a value
\* holds a reference into the heaps `lists` and `frames` of the world.
\* ---------------------------------------------------------------------
IntV(n) == [t |-> "int", v |-> n]
BoolV(b) == [t |-> "bool", v |-> b]
StrV(s) == [t |-> "str", v |-> s]
NoneV == [t |-> "none"]
TupleV(items) == [t |-> "tuple", v |-> items]
ListRef(ref) == [t |-> "list", ref |-> ref]
FrameRef(ref) == [t |-> "Frame", ref |-> ref]
PixelRef(frame, x, y) == [t |-> "PixelRef", frame |-> frame, x |-> x, y |-> y]
\* a function value that does not hold the globals
FunctionNoClosure(decl, closure) == [t |-> "FunctionValue", decl |-> decl, closure |-> 0]
FunctionValue(decl, closure) == [t |-> "FunctionValue", decl |-> decl, closure |-> closure]
Builtin(name) == [t |-> "builtin", name |-> name]

\* isinstance(v, int): bool is a subclass of int
\* a Python int from 2^31 to 2^32 - 1, written with its two 16-bit digits:
\* hi * 2^16 + lo, hi >= 32768.  Such values come out of _mask_int only;
\* IntV holds the integers from -2^31 to 2^31 - 1, and arithmetic or
\* comparison with a value above them is not computed (Unmodelled)
LongV(hi, lo) == [t |-> "long", hi |-> hi, lo |-> lo]
IsInt(v) == v.t \in {"int", "bool"}
\* the integer a Python int or bool stands for
AsInt(v) == IF v.t = "bool" THEN (IF v.v THEN 1 ELSE 0) ELSE v.v

\* ---------------------------------------------------------------------
\* Exceptions.  NoExc: the call returned normally.
\* ---------------------------------------------------------------------
Exc(type, line, value) == [type |-> type, line |-> line, value |-> value]
NoExc == Exc("none", 0, NoneV)
\* a runtime error that forgets its line
RuntimeErrorNoLine(line) == Exc("RuntimeErrorWithLine", -1, NoneV)
RuntimeErrorWithLine(line) == Exc("RuntimeErrorWithLine", line, NoneV)
\* a ReturnSignal that drops the value it is given
ReturnNothing(value) == Exc("ReturnSignal", 0, NoneV)
ReturnSignal(value) == Exc("ReturnSignal", 0, value)
PyError(type) == Exc(type, 0, NoneV)

\* the result of a call: the world after it, the value returned, the
\* exception raised (NoExc when none)
Ok(w, val) == [w |-> w, val |-> val, exc |-> NoExc]
Raise(w, exc) == [w |-> w, val |-> NoneV, exc |-> exc]
Failed(r) == r.exc.type # "none"

\* ---------------------------------------------------------------------
\* The trace: StepInfos yielded, handler calls, and the marks the
\* properties are stated over.
\* ---------------------------------------------------------------------
Emit(w, ev) == [w EXCEPT !.trace = Append(@, ev)]
\* a mark: its kind, the statement id, the source line, and a Frame or a count
Ev(e, sid, line, arg) == [e |-> e, sid |-> sid, line |-> line, arg |-> arg]
\* StepInfo(stmt.line, stmt) yielded for the statement `sid`, which is
\* statement number idx of the block `which` of the statement `owner`
StepEv(sid, stmt, at) ==
    [e |-> "step", sid |-> sid, line |-> stmt.line, arg |-> 0, k |-> stmt.k,
     owner |-> at.owner, which |-> at.which, idx |-> at.idx]

\* ---------------------------------------------------------------------
\* Environment (interpreter.py 82-104).  `envs` is the heap of Environment
\* objects; an environment is named by its index, parent 0 is None.
\* ---------------------------------------------------------------------
\* a new environment that hangs under the globals, whatever its parent
NewEnvUnderGlobals(w, parent) == [w EXCEPT !.envs = Append(@, [parent |-> 1, values |-> <<>>])]
NewEnv(w, parent) == [w EXCEPT !.envs = Append(@, [parent |-> parent, values |-> <<>>])]

\* the last environment on the parent chain of env that holds name
RECURSIVE OwnerOutermost(_, _, _)
OwnerOutermost(envs, env, name) ==
    LET up == IF envs[env].parent # 0 THEN OwnerOutermost(envs, envs[env].parent, name) ELSE 0
    IN  IF up # 0 THEN up
        ELSE IF name \in DOMAIN envs[env].values THEN env
        ELSE 0

\* the environment on the parent chain of env that get/set reach for name;
\* 0 when the chain ends without one
RECURSIVE Owner(_, _, _)
Owner(envs, env, name) ==
    IF name \in DOMAIN envs[env].values THEN env
    ELSE IF envs[env].parent # 0 THEN Owner(envs, envs[env].parent, name)
    ELSE 0

EnvDefine(w, env, name, value) ==
    [w EXCEPT !.envs[env].values = (name :> value) @@ @]

EnvSet(w, env, name, value) ==
    LET o == Owner(w.envs, env, name)
    IN  IF o = 0 THEN Raise(w, PyError("NameError"))
        ELSE Ok([w EXCEPT !.envs[o].values[name] = value], NoneV)

EnvGet(w, env, name) ==
    LET o == Owner(w.envs, env, name)
    IN  IF o = 0 THEN Raise(w, PyError("NameError"))
        ELSE Ok(w, w.envs[o].values[name])

\* ---------------------------------------------------------------------
\* Frame engine (engine.py).  A Frame is [display, on_change]; display is
\* the list of rows, each a list of pixel values; on_change tells whether
\* the callback slot holds the interpreter's _on_frame_changed.
\* ---------------------------------------------------------------------
Black == TupleV(<<IntV(0), IntV(0), IntV(0)>>)
Color(r, g, b) == TupleV(<<r, g, b>>)

BlankDisplay == [y \in 1..Height |-> [x \in 1..Width |-> Black]]
NewFrame == [display |-> BlankDisplay, on_change |-> FALSE]

\* Python's seq[i] for a sequence of length n: the 1-based position, a
\* negative i counting from the end; 0 when i is out of range
Idx(n, i) ==
    IF i >= 0 /\ i < n THEN i + 1
    ELSE IF i < 0 /\ i >= -n THEN n + i + 1
    ELSE 0

\* where display[y][x] lands: <<row, column>>, or the error the subscript
\* raises
Locate(w, d, x, y) ==
    LET yi == IF IsInt(y) THEN Idx(Len(d), AsInt(y)) ELSE 0
        xi == IF yi > 0 /\ IsInt(x) THEN Idx(Len(d[yi]), AsInt(x)) ELSE 0
    IN  IF ~IsInt(y) THEN Raise(w, PyError("TypeError"))
        ELSE IF yi = 0 THEN Raise(w, PyError("IndexError"))
        ELSE IF ~IsInt(x) THEN Raise(w, PyError("TypeError"))
        ELSE IF xi = 0 THEN Raise(w, PyError("IndexError"))
        ELSE Ok(w, <<yi, xi>>)

\* Interpreter._on_frame_changed
OnFrameChanged(w, f) == [w EXCEPT !.last = f]

\* Frame._notify_change
NotifyChange(w, f) ==
    IF w.frames[f].on_change
    THEN OnFrameChanged(Emit(w, Ev("notify", 0, 0, f)), f)
    ELSE w

\* self.display[y][x]
FrameLoad(w, f, x, y) ==
    LET load(c) == IF Failed(c) THEN c ELSE Ok(w, w.frames[f].display[c.val[1]][c.val[2]])
    IN  load(Locate(w, w.frames[f].display, x, y))

\* self.display[y][x] = cell
\* (a store that changes the cell leaves the mark "change")
FrameStore(w, f, x, y, cell) ==
    LET store(c) ==
            IF Failed(c) THEN c
            ELSE IF w.frames[f].display[c.val[1]][c.val[2]] = cell THEN Ok(w, NoneV)
            ELSE Ok(Emit([w EXCEPT !.frames[f].display[c.val[1]][c.val[2]] = cell],
                         Ev("change", 0, 0, f)),
                    NoneV)
    IN  store(Locate(w, w.frames[f].display, x, y))

\* a setColor that subscripts display[x][y]
SetColorTransposed(w, f, x, y, r, g, b) ==
    LET notify(s) == IF Failed(s) THEN s ELSE Ok(NotifyChange(s.w, f), NoneV)
    IN  notify(FrameStore(w, f, y, x, Color(r, g, b)))

FrameSetColor(w, f, x, y, r, g, b) ==
    LET notify(s) == IF Failed(s) THEN s ELSE Ok(NotifyChange(s.w, f), NoneV)
    IN  notify(FrameStore(w, f, x, y, Color(r, g, b)))

FrameGetPixel(w, f, x, y) == FrameLoad(w, f, x, y)

\* r, g, b = self.display[y][x]: the three components, or the error
Unpack3(w, f, x, y) ==
    LET unpack(p) == IF Failed(p) THEN p
                     ELSE IF p.val.t = "tuple" /\ Len(p.val.v) = 3 THEN p
                     ELSE Raise(w, PyError("Unmodelled"))
    IN  unpack(FrameLoad(w, f, x, y))

\* setRed / setGreen / setBlue: channel 1, 2, 3
FrameSetChannel(w, f, x, y, channel, value) ==
    LET notify(s) == IF Failed(s) THEN s ELSE Ok(NotifyChange(s.w, f), NoneV)
        store(p) ==
            IF Failed(p) THEN p
            ELSE notify(FrameStore(w, f, x, y, TupleV([p.val.v EXCEPT ![channel] = value])))
    IN  store(Unpack3(w, f, x, y))

\* getRed / getGreen / getBlue
FrameGetChannel(w, f, x, y, channel) ==
    LET get(p) == IF Failed(p) THEN p ELSE Ok(w, p.val.v[channel])
    IN  get(Unpack3(w, f, x, y))

\* setColor on each cell of `cells` in order, stopping at the first error
\* a loop that stores every cell and fires the callback once, at its end
RECURSIVE StoreAllNotifyOnce(_, _, _, _)
StoreAllNotifyOnce(w, f, cells, rgb) ==
    IF cells = <<>> THEN Ok(w, NoneV)
    ELSE LET rest(s) == IF Failed(s) THEN s
                        ELSE IF Len(cells) = 1 THEN Ok(NotifyChange(s.w, f), NoneV)
                        ELSE StoreAllNotifyOnce(s.w, f, Tail(cells), rgb)
         IN  rest(FrameStore(w, f, IntV(Head(cells)[1]), IntV(Head(cells)[2]),
                             Color(rgb[1], rgb[2], rgb[3])))

RECURSIVE SetColorAll(_, _, _, _)
SetColorAll(w, f, cells, rgb) ==
    IF cells = <<>> THEN Ok(w, NoneV)
    ELSE LET rest(s) == IF Failed(s) THEN s ELSE SetColorAll(s.w, f, Tail(cells), rgb)
         IN  rest(FrameSetColor(w, f, IntV(Head(cells)[1]), IntV(Head(cells)[2]),
                                rgb[1], rgb[2], rgb[3]))

\* the cells makeRect visits: for y in range(y1, y2+1): for x in range(x1, x2+1)
RectCells(x1, y1, x2, y2) ==
    LET cols == IF x2 >= x1 THEN x2 - x1 + 1 ELSE 0
        rows == IF y2 >= y1 THEN y2 - y1 + 1 ELSE 0
    IN  [i \in 1..(rows * cols) |-> <<x1 + ((i - 1) % cols), y1 + ((i - 1) \div cols)>>]

FrameMakeRect(w, f, x1, y1, x2, y2, rgb) == SetColorAll(w, f, RectCells(x1, y1, x2, y2), rgb)

Abs(n) == IF n < 0 THEN -n ELSE n
InWindow(x, y) == 0 <= x /\ x < Width /\ 0 <= y /\ y < Height

\* the in-window cells of makeLine's Bresenham walk from (x1, y1) to (x2, y2)
RECURSIVE LineCells(_, _, _, _, _)
LineCells(x1, y1, x2, y2, err) ==
    LET dx == Abs(x2 - x1)
        dy == -Abs(y2 - y1)
        sx == IF x1 < x2 THEN 1 ELSE -1
        sy == IF y1 < y2 THEN 1 ELSE -1
        here == IF InWindow(x1, y1) THEN <<(<<x1, y1>>)>> ELSE <<>>
        e2 == 2 * err
        stepx == e2 >= dy
        stepy == e2 <= dx
    IN  IF x1 = x2 /\ y1 = y2 THEN here
        ELSE here \o LineCells(IF stepx THEN x1 + sx ELSE x1,
                               IF stepy THEN y1 + sy ELSE y1,
                               x2, y2,
                               err + (IF stepx THEN dy ELSE 0) + (IF stepy THEN dx ELSE 0))

FrameMakeLine(w, f, x1, y1, x2, y2, rgb) ==
    SetColorAll(w, f, LineCells(x1, y1, x2, y2, Abs(x2 - x1) - Abs(y2 - y1)), rgb)

\* ---------------------------------------------------------------------
\* Python's == and bool() on runtime values
\* ---------------------------------------------------------------------
RECURSIVE PyEq(_, _, _)
PyEq(w, a, b) ==
    IF IsInt(a) /\ IsInt(b) THEN AsInt(a) = AsInt(b)
    ELSE IF a.t # b.t THEN FALSE
    ELSE IF a.t = "none" THEN TRUE
    ELSE IF a.t = "tuple" THEN
        /\ Len(a.v) = Len(b.v)
        /\ \A i \in 1..Len(a.v) : PyEq(w, a.v[i], b.v[i])
    ELSE IF a.t = "list" THEN
        /\ Len(w.lists[a.ref]) = Len(w.lists[b.ref])
        /\ \A i \in 1..Len(w.lists[a.ref]) : PyEq(w, w.lists[a.ref][i], w.lists[b.ref][i])
    ELSE IF a.t = "PixelRef" THEN
        a.frame = b.frame /\ PyEq(w, a.x, b.x) /\ PyEq(w, a.y, b.y)
    ELSE a = b

Truthy(w, v) ==
    IF v.t = "bool" THEN v.v
    ELSE IF v.t = "int" THEN v.v # 0
    ELSE IF v.t = "str" THEN v.v # ""
    ELSE IF v.t = "none" THEN FALSE
    ELSE IF v.t = "tuple" THEN v.v # <<>>
    ELSE IF v.t = "list" THEN w.lists[v.ref] # <<>>
    ELSE TRUE

\* a fill loop that never pushes the neighbour below
RECURSIVE FillLoopNoDown(_, _, _, _, _, _)
FillLoopNoDown(w, f, stack, visited, target, replacement) ==
    IF stack = <<>> THEN w
    ELSE LET p == stack[Len(stack)]
             rest == SubSeq(stack, 1, Len(stack) - 1)
             x == p[1]
             y == p[2]
             pushed == (IF x > 0 THEN <<(<<x - 1, y>>)>> ELSE <<>>)
                       \o (IF x < Width - 1 THEN <<(<<x + 1, y>>)>> ELSE <<>>)
                       \o (IF y > 0 THEN <<(<<x, y - 1>>)>> ELSE <<>>)
         IN  IF p \in visited THEN FillLoopNoDown(w, f, rest, visited, target, replacement)
             ELSE IF ~PyEq(w, w.frames[f].display[y + 1][x + 1], target)
             THEN FillLoopNoDown(w, f, rest, visited \cup {p}, target, replacement)
             ELSE FillLoopNoDown(FrameStore(w, f, IntV(x), IntV(y), replacement).w, f,
                                 rest \o pushed, visited \cup {p}, target, replacement)

\* Frame.fill's loop: the work stack (top at the end), the visited set
RECURSIVE FillLoop(_, _, _, _, _, _)
FillLoop(w, f, stack, visited, target, replacement) ==
    IF stack = <<>> THEN w
    ELSE LET p == stack[Len(stack)]
             rest == SubSeq(stack, 1, Len(stack) - 1)
             x == p[1]
             y == p[2]
             pushed == (IF x > 0 THEN <<(<<x - 1, y>>)>> ELSE <<>>)
                       \o (IF x < Width - 1 THEN <<(<<x + 1, y>>)>> ELSE <<>>)
                       \o (IF y > 0 THEN <<(<<x, y - 1>>)>> ELSE <<>>)
                       \o (IF y < Height - 1 THEN <<(<<x, y + 1>>)>> ELSE <<>>)
         IN  IF p \in visited THEN FillLoop(w, f, rest, visited, target, replacement)
             ELSE IF ~PyEq(w, w.frames[f].display[y + 1][x + 1], target)
             THEN FillLoop(w, f, rest, visited \cup {p}, target, replacement)
             ELSE FillLoop(FrameStore(w, f, IntV(x), IntV(y), replacement).w, f,
                           rest \o pushed, visited \cup {p}, target, replacement)

\* a fill whose replacement takes its red channel from the seed's blue one
FillMixedChannels(w, f, startx, starty, rgb) ==
    IF ~InWindow(startx, starty) THEN Ok(w, NoneV)
    ELSE LET target == w.frames[f].display[starty + 1][startx + 1]
             replacement == Color(target.v[3], rgb[2], rgb[3])
         IN  IF PyEq(w, target, replacement) THEN Ok(w, NoneV)
             ELSE Ok(FillLoop(w, f, <<(<<startx, starty>>)>>, {}, target, replacement), NoneV)

\* Frame.fill: it writes display directly and never calls _notify_change
FrameFill(w, f, startx, starty, rgb) ==
    IF ~InWindow(startx, starty) THEN Ok(w, NoneV)
    ELSE LET target == w.frames[f].display[starty + 1][startx + 1]
             replacement == Color(rgb[1], rgb[2], rgb[3])
         IN  IF PyEq(w, target, replacement) THEN Ok(w, NoneV)
             ELSE Ok(FillLoop(w, f, <<(<<startx, starty>>)>>, {}, target, replacement), NoneV)

\* ---------------------------------------------------------------------
\* Operators (interpreter.py 460-510).  A combination of operand types
\* the model does not compute raises "Unmodelled"; the programs of the
\* model never reach one (see NothingUnmodelled).
\* ---------------------------------------------------------------------
\* value & 0xFFFFFFFF, for the values the model's integers can hold
\* Python's | and & on unbounded two's-complement integers
RECURSIVE BitOr(_, _)
BitOr(a, b) ==
    IF a = 0 THEN b
    ELSE IF b = 0 THEN a
    ELSE IF a = -1 \/ b = -1 THEN -1
    ELSE (IF a % 2 = 1 \/ b % 2 = 1 THEN 1 ELSE 0) + 2 * BitOr(a \div 2, b \div 2)

RECURSIVE BitAnd(_, _)
BitAnd(a, b) ==
    IF a = 0 \/ b = 0 THEN 0
    ELSE IF a = -1 THEN b
    ELSE IF b = -1 THEN a
    ELSE (IF a % 2 = 1 /\ b % 2 = 1 THEN 1 ELSE 0) + 2 * BitAnd(a \div 2, b \div 2)

\* the two's-complement digits of a Python int in base 2^16: lo and hi are
\* bits 0..15 and 16..31, up is every digit above them (0 or 65535, the
\* sign extension)
PyBits(v) ==
    IF v.t = "long" THEN [up |-> 0, hi |-> v.hi, lo |-> v.lo]
    ELSE LET n == AsInt(v)
         IN  [up |-> IF n < 0 THEN 65535 ELSE 0, hi |-> (n \div 65536) % 65536, lo |-> n % 65536]

\* _mask_int: value & 0xFFFFFFFF, digit by digit
MaskInt(w, value) ==
    LET up == BitAnd(value.up, 0)
        hi == BitAnd(value.hi, 65535)
        lo == BitAnd(value.lo, 65535)
    IN  Ok(w, IF hi < 32768 THEN IntV(hi * 65536 + lo) ELSE LongV(hi, lo))

eval_unary(w, op, value, line) ==
    LET bits == PyBits(value)
    IN  IF op = "not" THEN Ok(w, BoolV(~Truthy(w, value)))
        ELSE IF op = "~" THEN
            IF ~IsInt(value) /\ value.t # "long" THEN Raise(w, RuntimeErrorWithLine(line))
            ELSE MaskInt(w, [up |-> 65535 - bits.up, hi |-> 65535 - bits.hi,
                             lo |-> 65535 - bits.lo])
        ELSE IF op = "-" THEN
            IF IsInt(value) THEN Ok(w, IntV(-AsInt(value)))
            ELSE IF value.t = "long" THEN Raise(w, PyError("Unmodelled"))
            ELSE Raise(w, PyError("TypeError"))
        ELSE Raise(w, RuntimeErrorWithLine(line))

\* left + right for two lists: a new list object
NewList(w, items) == Ok([w EXCEPT !.lists = Append(@, items)], ListRef(Len(w.lists) + 1))

eval_binary(w, op, left, right, line) ==
    LET ints == IsInt(left) /\ IsInt(right)
        a == AsInt(left)
        b == AsInt(right)
        sequences == {"str", "tuple", "list"}
        long == left.t = "long" \/ right.t = "long"
        pyints == (IsInt(left) \/ left.t = "long") /\ (IsInt(right) \/ right.t = "long")
        x == PyBits(left)
        y == PyBits(right)
    IN  IF long /\ op \in {"+", "-", "*", "<", ">", "<=", ">="}
        THEN Raise(w, PyError("Unmodelled"))
        ELSE IF op = "->" THEN
            IF left.t = "Frame" /\ right.t = "tuple" /\ Len(right.v) = 2
            THEN Ok(w, PixelRef(left.ref, right.v[1], right.v[2]))
            ELSE Raise(w, RuntimeErrorWithLine(line))
        ELSE IF op = "+" THEN
            IF ints THEN Ok(w, IntV(a + b))
            ELSE IF left.t = "str" /\ right.t = "str" THEN Ok(w, StrV(left.v \o right.v))
            ELSE IF left.t = "tuple" /\ right.t = "tuple" THEN Ok(w, TupleV(left.v \o right.v))
            ELSE IF left.t = "list" /\ right.t = "list"
            THEN NewList(w, w.lists[left.ref] \o w.lists[right.ref])
            ELSE Raise(w, PyError("TypeError"))
        ELSE IF op = "-" THEN
            IF ints THEN Ok(w, IntV(a - b)) ELSE Raise(w, PyError("TypeError"))
        ELSE IF op = "*" THEN
            IF ints THEN Ok(w, IntV(a * b))
            ELSE IF (IsInt(left) /\ right.t \in sequences) \/ (IsInt(right) /\ left.t \in sequences)
            THEN Raise(w, PyError("Unmodelled"))
            ELSE Raise(w, PyError("TypeError"))
        ELSE IF op = "==" THEN Ok(w, BoolV(PyEq(w, left, right)))
        ELSE IF op \in {"<", ">", "<=", ">="} THEN
            IF ints THEN Ok(w, BoolV(CASE op = "<" -> a < b
                                       [] op = ">" -> a > b
                                       [] op = "<=" -> a <= b
                                       [] OTHER -> a >= b))
            ELSE IF left.t = right.t /\ left.t \in sequences THEN Raise(w, PyError("Unmodelled"))
            ELSE Raise(w, PyError("TypeError"))
        ELSE IF op = "and" THEN Ok(w, IF Truthy(w, left) THEN right ELSE left)
        ELSE IF op = "or" THEN Ok(w, IF Truthy(w, left) THEN left ELSE right)
        ELSE IF op = "xor" THEN Ok(w, BoolV(Truthy(w, left) # Truthy(w, right)))
        ELSE IF op = "|" THEN
            IF ~pyints THEN Raise(w, RuntimeErrorWithLine(line))
            ELSE MaskInt(w, [up |-> BitOr(x.up, y.up), hi |-> BitOr(x.hi, y.hi),
                             lo |-> BitOr(x.lo, y.lo)])
        ELSE IF op = "&" THEN
            IF ~pyints THEN Raise(w, RuntimeErrorWithLine(line))
            ELSE MaskInt(w, [up |-> BitAnd(x.up, y.up), hi |-> BitAnd(x.hi, y.hi),
                             lo |-> BitAnd(x.lo, y.lo)])
        ELSE Raise(w, RuntimeErrorWithLine(line))

\* ---------------------------------------------------------------------
\* Built-in functions (interpreter.py 388-398, 579-739)
\* ---------------------------------------------------------------------
\* int(v) on each value of vals, left to right: the tuple of ints, or the
\* first error (int() of a string is not computed by the model)
IntsOf(w, vals) ==
    LET bad == {i \in 1..Len(vals) : ~IsInt(vals[i])}
        first == CHOOSE i \in bad : \A j \in bad : i <= j
    IN  IF bad = {} THEN Ok(w, TupleV([i \in 1..Len(vals) |-> IntV(AsInt(vals[i]))]))
        ELSE IF vals[first].t = "str" THEN Raise(w, PyError("Unmodelled"))
        ELSE Raise(w, PyError("TypeError"))

IsColor(v) == v.t = "tuple" /\ Len(v.v) = 3

\* Frame() followed by _track_frame: a new Frame whose on-change slot
\* holds _on_frame_changed
TrackNewFrame(w) ==
    Ok([w EXCEPT !.frames = Append(@, [NewFrame EXCEPT !.on_change = TRUE])],
       FrameRef(Len(w.frames) + 1))

_default_value(w, type_name) ==
    CASE type_name = "Frame" -> TrackNewFrame(w)
      [] type_name = "int" -> Ok(w, IntV(0))
      [] type_name = "color" -> Ok(w, Black)
      [] type_name = "pixel" -> Ok(w, TupleV(<<IntV(0), IntV(0)>>))
      [] type_name = "bool" -> Ok(w, BoolV(FALSE))
      [] type_name = "string" -> Ok(w, StrV(""))
      [] type_name = "list" -> NewList(w, <<>>)
      [] type_name = "None" -> Ok(w, NoneV)
      [] OTHER -> Raise(w, PyError("KeyError"))

_unwrap_point(w, value, line) ==
    IF value.t = "PixelRef" THEN IntsOf(w, <<value.x, value.y>>)
    ELSE IF value.t = "tuple" /\ Len(value.v) = 2 THEN IntsOf(w, value.v)
    ELSE Raise(w, RuntimeErrorWithLine(line))

_builtin_frame(w, args, line) ==
    IF args # <<>> THEN Raise(w, RuntimeErrorWithLine(line)) ELSE TrackNewFrame(w)

_builtin_set_channel(w, args, line, channel) ==
    IF Len(args) # 2 THEN Raise(w, RuntimeErrorWithLine(line))
    ELSE IF args[1].t # "PixelRef" THEN Raise(w, RuntimeErrorWithLine(line))
    ELSE LET ptr == args[1]
             v == IntsOf(w, <<args[2]>>)
         IN  IF Failed(v) THEN v
             ELSE FrameSetChannel(w, ptr.frame, ptr.x, ptr.y, channel, v.val.v[1])

_builtin_set_color(w, args, line) ==
    IF Len(args) # 2 THEN Raise(w, RuntimeErrorWithLine(line))
    ELSE IF args[1].t # "PixelRef" THEN Raise(w, RuntimeErrorWithLine(line))
    ELSE IF ~IsColor(args[2]) THEN Raise(w, RuntimeErrorWithLine(line))
    ELSE LET ptr == args[1]
             c == IntsOf(w, args[2].v)
         IN  IF Failed(c) THEN c
             ELSE FrameSetColor(w, ptr.frame, ptr.x, ptr.y, c.val.v[1], c.val.v[2], c.val.v[3])

_builtin_get_pixel(w, args, line) ==
    IF Len(args) # 1 THEN Raise(w, RuntimeErrorWithLine(line))
    ELSE IF args[1].t # "PixelRef" THEN Raise(w, RuntimeErrorWithLine(line))
    ELSE FrameGetPixel(w, args[1].frame, args[1].x, args[1].y)

_builtin_get_channel(w, args, line, channel) ==
    IF Len(args) # 1 THEN Raise(w, RuntimeErrorWithLine(line))
    ELSE IF args[1].t # "PixelRef" THEN Raise(w, RuntimeErrorWithLine(line))
    ELSE FrameGetChannel(w, args[1].frame, args[1].x, args[1].y, channel)

\* the argument checks shared by makeRect, makeLine and makeOval
\* (frame, p1, p2, color): the ints <<x1, y1, x2, y2, r, g, b>>
ShapeArgs(w, args, line) ==
    IF Len(args) # 4 THEN Raise(w, RuntimeErrorWithLine(line))
    ELSE IF args[1].t # "Frame" THEN Raise(w, RuntimeErrorWithLine(line))
    ELSE LET p1 == _unwrap_point(w, args[2], line)
             p2 == _unwrap_point(w, args[3], line)
             c == IntsOf(w, args[4].v)
         IN  IF Failed(p1) THEN p1
             ELSE IF Failed(p2) THEN p2
             ELSE IF ~IsColor(args[4]) THEN Raise(w, RuntimeErrorWithLine(line))
             ELSE IF Failed(c) THEN c
             ELSE Ok(w, TupleV(p1.val.v \o p2.val.v \o c.val.v))

_builtin_make_rect(w, args, line) ==
    LET draw(a) ==
            IF Failed(a) THEN a
            ELSE FrameMakeRect(w, args[1].ref, a.val.v[1].v, a.val.v[2].v,
                               a.val.v[3].v, a.val.v[4].v, SubSeq(a.val.v, 5, 7))
    IN  draw(ShapeArgs(w, args, line))

_builtin_make_line(w, args, line) ==
    LET draw(a) ==
            IF Failed(a) THEN a
            ELSE FrameMakeLine(w, args[1].ref, a.val.v[1].v, a.val.v[2].v,
                               a.val.v[3].v, a.val.v[4].v, SubSeq(a.val.v, 5, 7))
    IN  draw(ShapeArgs(w, args, line))

_builtin_fill(w, args, line) ==
    IF Len(args) # 4 THEN Raise(w, RuntimeErrorWithLine(line))
    ELSE IF args[1].t # "Frame" THEN Raise(w, RuntimeErrorWithLine(line))
    ELSE IF ~IsInt(args[2]) \/ ~IsInt(args[3]) THEN Raise(w, RuntimeErrorWithLine(line))
    ELSE IF ~IsColor(args[4]) THEN Raise(w, RuntimeErrorWithLine(line))
    ELSE LET c == IntsOf(w, args[4].v)
         IN  IF Failed(c) THEN c
             ELSE FrameFill(w, args[1].ref, AsInt(args[2]), AsInt(args[3]), c.val.v)

\* a pixel as json.loads returns it: a list [r, g, b], not a tuple
JsonPixel(r, g, b) == [t |-> "jsonlist", v |-> <<IntV(r), IntV(g), IntV(b)>>]

\* the files of the model, as loadQGC sees them: whether the data starts
\* with QGC_MAGIC, and the payload that zlib.decompress and json.loads
\* give.  "saved.qgc" is what saveQGC wrote for a Frame with one red
\* pixel; "short.qgc" has the header of a 64x32 Frame and one row of two
\* pixels; "other.qgc" does not start with the magic.
QGCFiles ==
    [path \in {"saved.qgc", "short.qgc", "other.qgc"} |->
        CASE path = "saved.qgc" ->
                 [magic |-> TRUE, w |-> Width, h |-> Height,
                  pixels |-> [y \in 1..Height |-> [x \in 1..Width |->
                                 IF x = 1 /\ y = 1 THEN JsonPixel(31, 0, 0)
                                 ELSE JsonPixel(0, 0, 0)]]]
          [] path = "short.qgc" ->
                 [magic |-> TRUE, w |-> Width, h |-> Height,
                  pixels |-> <<(<<JsonPixel(0, 0, 0), JsonPixel(0, 0, 0)>>)>>]
          [] OTHER ->
                 [magic |-> FALSE, w |-> 0, h |-> 0, pixels |-> <<>>]]

\* loadQGC followed by _track_frame: Frame(payload["pixels"]) takes the
\* pixels as its display without looking at them
loadQGC(w, path) ==
    IF path \notin DOMAIN QGCFiles THEN Raise(w, PyError("FileNotFoundError"))
    ELSE IF ~QGCFiles[path].magic THEN Raise(w, PyError("ValueError"))
    ELSE IF QGCFiles[path].w # Width \/ QGCFiles[path].h # Height
    THEN Raise(w, PyError("ValueError"))
    ELSE Ok([w EXCEPT !.frames = Append(@, [display |-> QGCFiles[path].pixels,
                                            on_change |-> TRUE])],
            FrameRef(Len(w.frames) + 1))

_builtin_load_qgc(w, args, line) ==
    IF Len(args) # 1 THEN Raise(w, RuntimeErrorWithLine(line))
    ELSE IF args[1].t # "str" THEN Raise(w, RuntimeErrorWithLine(line))
    ELSE loadQGC(w, args[1].v)

\* fn(args, line) for the native fn installed under `name` by _install_builtins.
\* makeOval and makeCurve (floating point) and SaveQGC are not computed.
CallBuiltin(w, name, args, line) ==
    CASE name = "Frame" -> _builtin_frame(w, args, line)
      [] name = "setRed" -> _builtin_set_channel(w, args, line, 1)
      [] name = "setGreen" -> _builtin_set_channel(w, args, line, 2)
      [] name = "setBlue" -> _builtin_set_channel(w, args, line, 3)
      [] name = "setColor" -> _builtin_set_color(w, args, line)
      [] name = "getPixel" -> _builtin_get_pixel(w, args, line)
      [] name = "getRed" -> _builtin_get_channel(w, args, line, 1)
      [] name = "getGreen" -> _builtin_get_channel(w, args, line, 2)
      [] name = "getBlue" -> _builtin_get_channel(w, args, line, 3)
      [] name = "makeRect" -> _builtin_make_rect(w, args, line)
      [] name = "makeLine" -> _builtin_make_line(w, args, line)
      [] name = "Fill" -> _builtin_fill(w, args, line)
      [] name = "LoadQGC" -> _builtin_load_qgc(w, args, line)
      [] OTHER -> Raise(w, PyError("Unmodelled"))

BuiltinNames == {"Frame", "setRed", "setGreen", "setBlue", "setColor", "getPixel",
                 "getRed", "getGreen", "getBlue", "makeRect", "makeLine", "Fill",
                 "makeOval", "makeCurve", "LoadQGC", "SaveQGC"}

\* ---------------------------------------------------------------------
\* Pieces shared by the eager and the stepping interpreter
\* ---------------------------------------------------------------------
\* a fresh statement id, and the mark that the statement `stmt` starts to
\* execute under it
NextSid(w) == w.nsid + 1
Begin(w, stmt) == Emit([w EXCEPT !.nsid = @ + 1], Ev("exec", w.nsid + 1, stmt.line, 0))

\* base[idx] (idx an int)
Subscript(w, base, idx) ==
    LET items == IF base.t = "list" THEN w.lists[base.ref] ELSE base.v
        i == Idx(Len(items), AsInt(idx))
    IN  IF base.t = "str" THEN Raise(w, PyError("Unmodelled"))
        ELSE IF base.t \notin {"list", "tuple"} THEN Raise(w, PyError("TypeError"))
        ELSE IF i = 0 THEN Raise(w, PyError("IndexError"))
        ELSE Ok(w, items[i])

\* base[idx] = value (idx an int)
StoreSubscript(w, base, idx, value) ==
    LET i == Idx(Len(w.lists[base.ref]), AsInt(idx))
    IN  IF base.t # "list" THEN Raise(w, PyError("TypeError"))
        ELSE IF i = 0 THEN Raise(w, PyError("IndexError"))
        ELSE Ok([w EXCEPT !.lists[base.ref][i] = value], NoneV)

\* Interpreter.publish and Interpreter.send, for an interpreter built with
\* a publish_handler and a send_handler: the handler's calls are recorded
\* (a publish that calls the handler before it checks the value)
PublishBeforeCheck(w, value) ==
    LET called == Emit([w EXCEPT !.published =
                           Append(@, [frame |-> IF value.t = "Frame" THEN value.ref ELSE 0,
                                      display |-> IF value.t = "Frame"
                                                  THEN w.frames[value.ref].display
                                                  ELSE BlankDisplay])],
                       Ev("publish", 0, 0, 0))
    IN  IF value.t # "Frame" THEN Raise(called, RuntimeErrorWithLine(-1)) ELSE Ok(called, NoneV)
publish(w, value) ==
    IF value.t # "Frame" THEN Raise(w, RuntimeErrorWithLine(-1))
    ELSE Ok(Emit([w EXCEPT !.published =
                      Append(@, [frame |-> value.ref, display |-> w.frames[value.ref].display])],
                 Ev("publish", 0, 0, value.ref)),
            NoneV)

send(w, value) ==
    IF value.t # "str" THEN Raise(w, RuntimeErrorWithLine(-1))
    ELSE Ok(Emit([w EXCEPT !.sent = Append(@, value.v)], Ev("send", 0, 0, 0)), NoneV)

\* an assign_pixel that stores whatever value it is given
AssignAnyValue(w, ptr, value, line) ==
    IF ptr.t # "PixelRef" THEN Raise(w, RuntimeErrorWithLine(line))
    ELSE LET notify(s) == IF Failed(s) THEN s ELSE Ok(NotifyChange(s.w, ptr.frame), NoneV)
         IN  notify(FrameStore(w, ptr.frame, ptr.x, ptr.y, value))
assign_pixel(w, ptr, value, line) ==
    IF ptr.t # "PixelRef" THEN Raise(w, RuntimeErrorWithLine(line))
    ELSE IF ~IsColor(value) THEN Raise(w, RuntimeErrorWithLine(line))
    ELSE FrameSetColor(w, ptr.frame, ptr.x, ptr.y, value.v[1], value.v[2], value.v[3])

\* a _reset_statement_frame that forgets to clear the slot
KeepStatementFrame(w) == w
_reset_statement_frame(w) == [w EXCEPT !.last = 0]

_emit_statement_frame(w) ==
    IF ~w.handler THEN w
    ELSE IF w.last = 0 THEN w
    ELSE [Emit(w, Ev("callback", 0, 0, w.last)) EXCEPT !.last = 0]

\* a pre-pass that binds nothing
RegisterNone(w, items) == w

\* the pre-pass of execute_program and execute_program_steps
RECURSIVE RegisterFunctions(_, _)
RegisterFunctions(w, items) ==
    IF items = <<>> THEN w
    ELSE LET item == Head(items)
             w1 == IF item.k = "FunctionDecl"
                   THEN EnvDefine(w, 1, item.name, FunctionValue(item, 1))
                   ELSE w
         IN  RegisterFunctions(w1, Tail(items))

\* call_env.define(param.name, arg) for each parameter
RECURSIVE BindParams(_, _, _, _)
BindParams(w, env, params, args) ==
    IF params = <<>> THEN w
    ELSE BindParams(EnvDefine(w, env, Head(params).name, Head(args)), env,
                    Tail(params), Tail(args))

\* except clauses that let every exception through as it is
WrapNothing(exc, item) == exc

\* the except clauses of execute_program and execute_program_steps
WrapError(exc, item) ==
    IF exc.type = "RuntimeErrorWithLine" THEN exc ELSE RuntimeErrorWithLine(item.line)

\* ---------------------------------------------------------------------
\* The eager interpreter (interpreter.py 156-225, 414-458, 512-549)
\* ---------------------------------------------------------------------
\* self.<method>(...): every call one method of the eager interpreter makes
\* to another goes through Call (defined below the methods)
RECURSIVE Call(_, _, _)

\* the values of exprs, evaluated left to right (acc: those already evaluated)
EvalItems(w, exprs, env, acc) ==
    IF exprs = <<>> THEN Ok(w, TupleV(acc))
    ELSE LET v == Call("eval_expr", w, <<Head(exprs), env>>)
         IN  IF Failed(v) THEN v
             ELSE Call("EvalItems", v.w, <<Tail(exprs), env, Append(acc, v.val)>>)

eval_expr(w, expr, env) ==
    CASE expr.k = "NoNode" -> Ok(w, NoneV)
      [] expr.k = "Literal" -> Ok(w, expr.value)
      [] expr.k = "Var" -> EnvGet(w, env, expr.name)
      [] expr.k = "UnaryOp" ->
            LET v == Call("eval_expr", w, <<expr.expr, env>>)
            IN  IF Failed(v) THEN v ELSE eval_unary(v.w, expr.op, v.val, expr.line)
      [] expr.k = "BinaryOp" ->
            LET l == Call("eval_expr", w, <<expr.left, env>>)
                r == Call("eval_expr", l.w, <<expr.right, env>>)
            IN  IF Failed(l) THEN l
                ELSE IF Failed(r) THEN r
                ELSE eval_binary(r.w, expr.op, l.val, r.val, expr.line)
      [] expr.k = "IndexExpr" ->
            LET base == Call("eval_expr", w, <<expr.base, env>>)
                idx == Call("eval_expr", base.w, <<expr.index, env>>)
            IN  IF Failed(base) THEN base
                ELSE IF Failed(idx) THEN idx
                ELSE IF ~IsInt(idx.val) THEN Raise(idx.w, RuntimeErrorWithLine(expr.line))
                ELSE Subscript(idx.w, base.val, idx.val)
      [] expr.k = "CallExpr" ->
            LET args == Call("EvalItems", w, <<expr.args, env, <<>> >>)
            IN  IF Failed(args) THEN args
                ELSE Call("call_function", args.w, <<expr.name, args.val.v, expr.line, env>>)
      [] expr.k = "ColorLit" -> Call("EvalItems", w, << <<expr.r, expr.g, expr.b>>, env, <<>> >>)
      [] expr.k = "PixelLit" -> Call("EvalItems", w, << <<expr.x, expr.y>>, env, <<>> >>)
      [] expr.k = "ListLit" ->
            LET items == Call("EvalItems", w, <<expr.items, env, <<>> >>)
            IN  IF Failed(items) THEN items ELSE NewList(items.w, items.val.v)
      [] expr.k = "ParenExpr" -> Call("eval_expr", w, <<expr.expr, env>>)
      [] expr.k = "WalrusAssign" ->
            LET v == Call("eval_expr", w, <<expr.expr, env>>)
                s == EnvSet(v.w, env, expr.name, v.val)
            IN  IF Failed(v) THEN v
                ELSE IF Failed(s) THEN s
                ELSE Ok(s.w, v.val)
      [] expr.k = "WalrusDecl" ->
            LET v == Call("eval_expr", w, <<expr.expr, env>>)
            IN  IF Failed(v) THEN v ELSE Ok(EnvDefine(v.w, env, expr.name, v.val), v.val)
      [] OTHER -> Raise(w, RuntimeErrorWithLine(expr.line))

call_function(w, name, args, line, env) ==
    LET fn == EnvGet(w, env, name)
    IN  IF Failed(fn) THEN fn
        ELSE IF fn.val.t = "builtin" THEN CallBuiltin(w, fn.val.name, args, line)
        ELSE IF fn.val.t = "FunctionValue" THEN
            LET decl == fn.val.decl
                w1 == NewEnv(w, fn.val.closure)
                call_env == Len(w1.envs)
                body == Call("execute_block", BindParams(w1, call_env, decl.params, args),
                             <<decl.body, call_env>>)
            IN  IF Len(args) # Len(decl.params) THEN Raise(w1, RuntimeErrorWithLine(line))
                ELSE IF body.exc.type = "ReturnSignal" THEN Ok(body.w, body.exc.value)
                ELSE IF Failed(body) THEN body
                ELSE Ok(body.w, NoneV)
        ELSE Raise(w, RuntimeErrorWithLine(line))

assign_target(w, target, value, env, line) ==
    IF target.k = "Var" THEN EnvSet(w, env, target.name, value)
    ELSE IF target.k = "IndexExpr" THEN
        LET base == Call("eval_expr", w, <<target.base, env>>)
            idx == Call("eval_expr", base.w, <<target.index, env>>)
        IN  IF Failed(base) THEN base
            ELSE IF Failed(idx) THEN idx
            ELSE IF ~IsInt(idx.val) THEN Raise(idx.w, RuntimeErrorWithLine(line))
            ELSE StoreSubscript(idx.w, base.val, idx.val, value)
    ELSE Raise(w, RuntimeErrorWithLine(line))

WhileLoop(w, stmt, env) ==
    LET cond == Call("eval_expr", w, <<stmt.condition, env>>)
        body == Call("execute_block", cond.w, <<stmt.body, env>>)
    IN  IF Failed(cond) THEN cond
        ELSE IF ~Truthy(cond.w, cond.val) THEN Ok(cond.w, NoneV)
        ELSE IF Failed(body) THEN body
        ELSE Call("WhileLoop", body.w, <<stmt, env>>)

\* for item in iterable: the list iterator reads item i of the live list
ForLoop(w, stmt, env, iterable, i) ==
    IF i > Len(w.lists[iterable]) THEN Ok(w, NoneV)
    ELSE LET w1 == NewEnv(w, env)
             loop_env == Len(w1.envs)
             w2 == EnvDefine(w1, loop_env, stmt.var_name, w.lists[iterable][i])
             body == Call("execute_block", w2, <<stmt.body, loop_env>>)
         IN  IF Failed(body) THEN body ELSE Call("ForLoop", body.w, <<stmt, env, iterable, i + 1>>)

execute_stmt(w0, stmt, env) ==
    LET w == Begin(w0, stmt)
        value == Call("eval_expr", w, <<stmt.value, env>>)
        expr == Call("eval_expr", w, <<stmt.expr, env>>)
    IN  CASE stmt.k = "VarDecl" ->
              LET v == IF stmt.value # NoNode THEN value ELSE _default_value(w, stmt.type_name)
              IN  IF Failed(v) THEN v ELSE Ok(EnvDefine(v.w, env, stmt.name, v.val), NoneV)
          [] stmt.k = "Assign" ->
              IF Failed(value) THEN value
              ELSE Call("assign_target", value.w, <<stmt.target, value.val, env, stmt.line>>)
          [] stmt.k = "PixelAssign" ->
              LET ptr == Call("eval_expr", value.w, <<stmt.pointer, env>>)
              IN  IF Failed(value) THEN value
                  ELSE IF Failed(ptr) THEN ptr
                  ELSE assign_pixel(ptr.w, ptr.val, value.val, stmt.line)
          [] stmt.k = "PublishStmt" ->
              IF Failed(expr) THEN expr ELSE publish(expr.w, expr.val)
          [] stmt.k = "SendStmt" ->
              IF Failed(expr) THEN expr ELSE send(expr.w, expr.val)
          [] stmt.k = "ReturnStmt" ->
              IF Failed(expr) THEN expr ELSE Raise(expr.w, ReturnSignal(expr.val))
          [] stmt.k = "ExprStmt" -> expr
          [] stmt.k = "IfStmt" ->
              LET cond == Call("eval_expr", w, <<stmt.condition, env>>)
              IN  IF Failed(cond) THEN cond
                  ELSE IF Truthy(cond.w, cond.val)
                  THEN Call("execute_block", cond.w, <<stmt.then_body, env>>)
                  ELSE IF stmt.else_body # NoBody
                  THEN Call("execute_block", cond.w, <<stmt.else_body, env>>)
                  ELSE Ok(cond.w, NoneV)
          [] stmt.k = "WhileStmt" -> Call("WhileLoop", w, <<stmt, env>>)
          [] stmt.k = "ForStmt" ->
              LET iterable == Call("eval_expr", w, <<stmt.iterable, env>>)
              IN  IF Failed(iterable) THEN iterable
                  ELSE IF iterable.val.t # "list"
                  THEN Raise(iterable.w, RuntimeErrorWithLine(stmt.line))
                  ELSE Call("ForLoop", iterable.w, <<stmt, env, iterable.val.ref, 1>>)
          [] OTHER -> Raise(w, RuntimeErrorWithLine(stmt.line))

execute_block(w, stmts, env) ==
    IF stmts = <<>> THEN Ok(w, NoneV)
    ELSE LET s == Call("execute_stmt", w, <<Head(stmts), env>>)
         IN  IF Failed(s) THEN s ELSE Call("execute_block", s.w, <<Tail(stmts), env>>)

Call(method, w, a) ==
    CASE method = "eval_expr" -> eval_expr(w, a[1], a[2])
      [] method = "EvalItems" -> EvalItems(w, a[1], a[2], a[3])
      [] method = "call_function" -> call_function(w, a[1], a[2], a[3], a[4])
      [] method = "assign_target" -> assign_target(w, a[1], a[2], a[3], a[4])
      [] method = "WhileLoop" -> WhileLoop(w, a[1], a[2])
      [] method = "ForLoop" -> ForLoop(w, a[1], a[2], a[3], a[4])
      [] method = "execute_stmt" -> execute_stmt(w, a[1], a[2])
      [] method = "execute_block" -> execute_block(w, a[1], a[2])

\* a loop that runs the items after the failing one before it raises
RECURSIVE RunItemsOn(_, _, _)
RunItemsOn(w, items, i) ==
    IF i > Len(items) THEN Ok(w, NoneV)
    ELSE IF items[i].k = "FunctionDecl" THEN RunItemsOn(w, items, i + 1)
    ELSE LET raise(rest) == Raise(rest.w, WrapError(rest.exc, items[i]))
             after(s) == IF Failed(s)
                         THEN raise([RunItemsOn(s.w, items, i + 1) EXCEPT !.exc = s.exc])
                         ELSE RunItemsOn(s.w, items, i + 1)
         IN  after(Call("execute_stmt", w, <<items[i], 1>>))

\* the second loop of execute_program, from item i on
RECURSIVE RunItems(_, _, _)
RunItems(w, items, i) ==
    IF i > Len(items) THEN Ok(w, NoneV)
    ELSE IF items[i].k = "FunctionDecl" THEN RunItems(w, items, i + 1)
    ELSE LET after(s) == IF Failed(s) THEN Raise(s.w, WrapError(s.exc, items[i]))
                          ELSE RunItems(s.w, items, i + 1)
         IN  after(Call("execute_stmt", w, <<items[i], 1>>))

execute_program(w, program) == RunItems(RegisterFunctions(w, program), program, 1)

\* ---------------------------------------------------------------------
\* Interpreter.__init__: the global environment (environment 1) holds the
\* built-ins; no Frame, no list, nothing published.  `handler` tells
\* whether a statement-end handler is installed (run_source_steps).
\* ---------------------------------------------------------------------
NewInterpreter(handler) ==
    [envs |-> <<[parent |-> 0, values |-> [n \in BuiltinNames |-> Builtin(n)]]>>,
     frames |-> <<>>, lists |-> <<>>, last |-> 0, handler |-> handler,
     published |-> <<>>, sent |-> <<>>, trace |-> <<>>, nsid |-> 0]

\* ---------------------------------------------------------------------
\* The stepping interpreter as a machine (interpreter.py 227-386).
\*
\* A machine state is [w, ctl, stack].  ctl.m tells what happens next:
\*   "start"          execute_program_steps begins (first next())
\*   "block"          execute_block_steps(stmts, env) is entered
\*   "stmt"           execute_stmt_steps(stmt, env) is entered
\*   "expr"           eval_expr_steps(expr, env) is entered
\*   "call"           call_function_steps(name, args, line, env) is entered
\*   "ret" / "exc"    the generator on top returned val / raised exc into
\*                    the frame on top of the stack
\*   "yield"          a StepInfo is in the driver's hands
\*   "done"/"failed"  the outermost generator returned / raised
\* A stack frame is a generator suspended in a `yield from` (or a yield):
\* g names its function, `at` the place it waits at.
\* ---------------------------------------------------------------------
Machine(w, ctl, stack) == [w |-> w, ctl |-> ctl, stack |-> stack]
Ret(val) == [m |-> "ret", val |-> val]
Exn(exc) == [m |-> "exc", exc |-> exc]
Top(stack) == stack[Len(stack)]
Pop(stack) == SubSeq(stack, 1, Len(stack) - 1)
\* a call made by the generator on top returned r or raised r.exc in it
Deliver(r, stack) == Machine(r.w, IF Failed(r) THEN Exn(r.exc) ELSE Ret(r.val), stack)

\* execute_program_steps
ProgramSteps(w, c, stack, program) ==
    LET from == IF c.m = "start" THEN 1 ELSE Top(stack).i + 1
        rest == {j \in from..Len(program) : program[j].k # "FunctionDecl"}
        i == CHOOSE j \in rest : \A j2 \in rest : j <= j2
        w1 == IF c.m = "start" THEN RegisterFunctions(w, program) ELSE w
        below == IF c.m = "start" THEN stack ELSE Pop(stack)
    IN  IF c.m = "exc"
        THEN Machine(w, [m |-> "failed", exc |-> WrapError(c.exc, program[Top(stack).i])],
                     Pop(stack))
        ELSE IF rest = {} THEN Machine(w1, [m |-> "done"], below)
        ELSE Machine(w1, [m |-> "stmt", stmt |-> program[i], env |-> 1,
                          at |-> [owner |-> 0, which |-> "top", idx |-> i]],
                     Append(below, [g |-> "program", i |-> i]))

\* execute_block_steps
BlockSteps(w, c, stack) ==
    LET top == Top(stack)
        run(stmts, i, env, at) ==
            [m |-> "stmt", stmt |-> stmts[i], env |-> env, at |-> [at EXCEPT !.idx = i]]
    IN  CASE c.m = "block" ->
              IF c.stmts = <<>> THEN Machine(w, Ret(NoneV), stack)
              ELSE Machine(w, run(c.stmts, 1, c.env, c.at),
                           Append(stack, [g |-> "block", stmts |-> c.stmts, i |-> 1,
                                          env |-> c.env, at |-> c.at]))
          [] c.m = "ret" ->
              IF top.i < Len(top.stmts)
              THEN Machine(w, run(top.stmts, top.i + 1, top.env, top.at),
                           Append(Pop(stack), [top EXCEPT !.i = @ + 1]))
              ELSE Machine(w, Ret(NoneV), Pop(stack))
          [] c.m = "exc" -> Machine(w, c, Pop(stack))

\* the statement frame of execute_stmt_steps(stmt, env), waiting at `at`
StmtFrame(stmt, env, sid, at, pos) ==
    [g |-> "stmt", at |-> at, stmt |-> stmt, env |-> env, sid |-> sid, pos |-> pos]
\* a block that runs in the global environment whatever env it is given
BlockInGlobals(stmts, env, owner, which) ==
    [m |-> "block", stmts |-> stmts, env |-> 1,
     at |-> [owner |-> owner, which |-> which, idx |-> 0]]
Block(stmts, env, owner, which) ==
    [m |-> "block", stmts |-> stmts, env |-> env,
     at |-> [owner |-> owner, which |-> which, idx |-> 0]]
Expr(expr, env) == [m |-> "expr", expr |-> expr, env |-> env]
\* variants of the yield: a declaration without initializer that defines
\* its variable before it yields,
YieldAfterDefault(w, f) ==
    LET d == _default_value(w, f.stmt.type_name)
    IN  IF f.stmt.k = "VarDecl" /\ f.stmt.value = NoNode
        THEN Emit(EnvDefine(d.w, f.env, f.stmt.name, d.val), StepEv(f.sid, f.stmt, f.pos))
        ELSE Emit(w, StepEv(f.sid, f.stmt, f.pos))
\* a yield that hands the pending Frame to the handler after the StepInfo,
YieldThenDeliver(w, f) == _emit_statement_frame(Emit(w, StepEv(f.sid, f.stmt, f.pos)))
\* a While that yields on entry only,
YieldOnce(w, f) ==
    IF /\ f.stmt.k = "WhileStmt"
       /\ \E j \in 1..Len(w.trace) : w.trace[j].e = "step" /\ w.trace[j].sid = f.sid
    THEN w
    ELSE Emit(w, StepEv(f.sid, f.stmt, f.pos))
\* and a For that yields from its second iteration on
YieldSkipFirst(w, f) ==
    IF f.stmt.k = "ForStmt" /\ f.i = 1 THEN w ELSE Emit(w, StepEv(f.sid, f.stmt, f.pos))
\* yield StepInfo(stmt.line, stmt)
YieldStep(w, f) == Emit(w, StepEv(f.sid, f.stmt, f.pos))
Yielded(f) == [m |-> "yield", line |-> f.stmt.line, sid |-> f.sid, k |-> f.stmt.k]

\* an If that tests `not cond`
SelectOther(w, stmt, cond) ==
    IF ~Truthy(w, cond) THEN "then"
    ELSE IF stmt.else_body # NoBody THEN "else"
    ELSE "skip"

\* execute_stmt_steps, IfStmt: the block `if cond: ... elif else_body is
\* not None: ...` runs, "skip" when it runs none
SelectBranch(w, stmt, cond) ==
    IF Truthy(w, cond) THEN "then"
    ELSE IF stmt.else_body # NoBody THEN "else"
    ELSE "skip"

\* execute_stmt_steps, IfStmt
IfSteps(w, c, stack) ==
    LET top == Top(stack)
        sid == NextSid(w)
        new == StmtFrame(c.stmt, c.env, sid, "resume", c.at)
        mark(w1, e, n) == Emit(w1, Ev(e, top.sid, top.stmt.line, n))
        wait(at) == Append(Pop(stack), [top EXCEPT !.at = at])
        w1 == mark(w, "cond", IF Truthy(w, c.val) THEN 1 ELSE 0)
        branch == SelectBranch(w, top.stmt, c.val)
    IN  CASE c.m = "stmt" ->
              Machine(YieldStep([w EXCEPT !.nsid = sid], new), Yielded(new), Append(stack, new))
          [] c.m = "exc" -> Machine(w, c, Pop(stack))
          [] c.m = "ret" /\ top.at = "resume" ->
              Machine(mark(w, "exec", 0), Expr(top.stmt.condition, top.env), wait("cond"))
          [] c.m = "ret" /\ top.at = "cond" ->
              (CASE branch = "then" ->
                    Machine(w1, Block(top.stmt.then_body, top.env, top.sid, "then"),
                            wait("branch"))
                [] branch = "else" ->
                    Machine(w1, Block(top.stmt.else_body, top.env, top.sid, "else"),
                            wait("branch"))
                [] OTHER -> Machine(mark(w1, "done", 0), Ret(NoneV), Pop(stack)))
          [] c.m = "ret" /\ top.at = "branch" ->
              Machine(mark(w, "done", 0), Ret(NoneV), Pop(stack))

\* execute_stmt_steps, WhileStmt
WhileSteps(w, c, stack) ==
    LET top == Top(stack)
        sid == NextSid(w)
        new == StmtFrame(c.stmt, c.env, sid, "resume", c.at)
        mark(e) == Emit(w, Ev(e, top.sid, top.stmt.line, 0))
        wait(at) == Append(Pop(stack), [top EXCEPT !.at = at])
    IN  CASE c.m = "stmt" ->
              Machine(YieldStep([w EXCEPT !.nsid = sid], new), Yielded(new), Append(stack, new))
          [] c.m = "exc" -> Machine(w, c, Pop(stack))
          [] c.m = "ret" /\ top.at = "resume" ->
              Machine(mark("exec"), Expr(top.stmt.condition, top.env), wait("cond"))
          [] c.m = "ret" /\ top.at = "cond" ->
              IF ~Truthy(w, c.val) THEN Machine(mark("exit"), Ret(NoneV), Pop(stack))
              ELSE Machine(mark("iter"), Block(top.stmt.body, top.env, top.sid, "body"),
                           wait("body"))
          [] c.m = "ret" /\ top.at = "body" ->
              Machine(YieldStep(w, top), Yielded(top), wait("resume"))

\* execute_stmt_steps, ForStmt: the frame also holds the iterable, the
\* position i of the list iterator, the item it returned last and the
\* loop_env of the iteration under way
ForSteps(w, c, stack) ==
    LET top == Top(stack)
        sid == NextSid(w)
        new == StmtFrame(c.stmt, c.env, sid, "iterable", c.at)
        mark(e, n) == Emit(w, Ev(e, top.sid, top.stmt.line, n))
        next(w1, f) ==
            IF f.i > Len(w1.lists[f.iterable])
            THEN Machine(Emit(w1, Ev("done", f.sid, f.stmt.line, 0)), Ret(NoneV), Pop(stack))
            ELSE Machine(YieldStep(w1, f), Yielded(f),
                         Append(Pop(stack), [f EXCEPT !.at = "resume",
                                                      !.item = w1.lists[f.iterable][f.i]]))
        w2 == NewEnv(mark("exec", 0), top.env)
        loop_env == Len(w2.envs)
    IN  CASE c.m = "stmt" ->
              Machine(Emit([w EXCEPT !.nsid = sid], Ev("iterable", sid, c.stmt.line, 0)),
                      Expr(c.stmt.iterable, c.env), Append(stack, new))
          [] c.m = "exc" -> Machine(w, c, Pop(stack))
          [] c.m = "ret" /\ top.at = "iterable" ->
              IF c.val.t # "list"
              THEN Machine(w, Exn(RuntimeErrorWithLine(top.stmt.line)), Pop(stack))
              ELSE next(mark("list", Len(w.lists[c.val.ref])),
                        [g |-> "stmt", at |-> "iterable", stmt |-> top.stmt, env |-> top.env,
                         sid |-> top.sid, pos |-> top.pos, iterable |-> c.val.ref, i |-> 1,
                         item |-> NoneV, loop_env |-> 0])
          [] c.m = "ret" /\ top.at = "resume" ->
              Machine(EnvDefine(w2, loop_env, top.stmt.var_name, top.item),
                      Block(top.stmt.body, loop_env, top.sid, "body"),
                      Append(Pop(stack), [top EXCEPT !.at = "body", !.loop_env = loop_env]))
          [] c.m = "ret" /\ top.at = "body" -> next(w, [top EXCEPT !.i = @ + 1])

\* a simple statement returns: _emit_statement_frame, then the mark
Finish(w, f) == Emit(_emit_statement_frame(w), Ev("done", f.sid, f.stmt.line, 0))

\* execute_stmt_steps, the simple statements (lines 275-311)
SimpleSteps(w, c, stack) ==
    LET top == Top(stack)
        s == top.stmt
        sid == NextSid(w)
        new == StmtFrame(c.stmt, c.env, sid, "resume", c.at)
        below == Pop(stack)
        w1 == _reset_statement_frame(Emit(w, Ev("exec", top.sid, s.line, 0)))
        default == _default_value(w1, s.type_name)
        wait(at) == Append(below, [top EXCEPT !.at = at])
        \* r: the result of the statement's own call (assign_target, ...)
        after(r) == IF Failed(r) THEN Machine(r.w, Exn(r.exc), below)
                    ELSE Machine(Finish(r.w, top), Ret(NoneV), below)
    IN  CASE c.m = "stmt" ->
              Machine(YieldStep([w EXCEPT !.nsid = sid], new), Yielded(new), Append(stack, new))
          [] c.m = "exc" -> Machine(w, c, below)
          [] c.m = "ret" /\ top.at = "resume" ->
              (CASE s.k = "VarDecl" ->
                    IF s.value # NoNode THEN Machine(w1, Expr(s.value, top.env), wait("value"))
                    ELSE IF Failed(default) THEN Machine(default.w, Exn(default.exc), below)
                    ELSE after(Ok(EnvDefine(default.w, top.env, s.name, default.val), NoneV))
                [] s.k \in {"Assign", "PixelAssign"} ->
                    Machine(w1, Expr(s.value, top.env), wait("value"))
                [] s.k \in {"PublishStmt", "SendStmt", "ExprStmt"} ->
                    Machine(w1, Expr(s.expr, top.env), wait("value"))
                [] s.k = "ReturnStmt" ->
                    IF s.expr # NoNode THEN Machine(w1, Expr(s.expr, top.env), wait("value"))
                    ELSE Machine(Finish(w1, top), Exn(ReturnSignal(NoneV)), below)
                [] OTHER -> Machine(w1, Exn(RuntimeErrorWithLine(s.line)), below))
          [] c.m = "ret" /\ top.at = "value" ->
              (CASE s.k = "VarDecl" -> after(Ok(EnvDefine(w, top.env, s.name, c.val), NoneV))
                [] s.k = "Assign" -> after(Call("assign_target", w, <<s.target, c.val, top.env, s.line>>))
                [] s.k = "PixelAssign" ->
                    Machine(w, Expr(s.pointer, top.env),
                            Append(below, [g |-> "stmt", at |-> "pointer", stmt |-> s,
                                           env |-> top.env, sid |-> top.sid, pos |-> top.pos,
                                           value |-> c.val]))
                [] s.k = "PublishStmt" -> after(publish(w, c.val))
                [] s.k = "SendStmt" -> after(send(w, c.val))
                [] s.k = "ReturnStmt" -> Machine(Finish(w, top), Exn(ReturnSignal(c.val)), below)
                [] s.k = "ExprStmt" -> after(Ok(w, NoneV)))
          [] c.m = "ret" /\ top.at = "pointer" ->
              after(assign_pixel(w, c.val, top.value, s.line))

\* eval_expr_steps, once the operands `acc` of a call, a color, a pixel or
\* a list literal are evaluated
ExprItemsDone(w, e, env, acc, stack) ==
    CASE e.k = "CallExpr" ->
          Machine(w, [m |-> "call", name |-> e.name, args |-> acc, line |-> e.line, env |-> env],
                  Append(stack, [g |-> "expr", at |-> "call", expr |-> e, env |-> env]))
      [] e.k = "ListLit" -> Deliver(NewList(w, acc), stack)
      [] OTHER -> Machine(w, Ret(TupleV(acc)), stack)

\* eval_expr_steps
ExprSteps(w, c, stack) ==
    LET top == Top(stack)
        below == Pop(stack)
        wait(e, at) == Append(stack, [g |-> "expr", at |-> at, expr |-> e, env |-> c.env])
        items(e) == CASE e.k = "CallExpr" -> e.args
                      [] e.k = "ColorLit" -> <<e.r, e.g, e.b>>
                      [] e.k = "PixelLit" -> <<e.x, e.y>>
                      [] e.k = "ListLit" -> e.items
        acc == Append(top.acc, c.val)
        set == EnvSet(w, top.env, top.expr.name, c.val)
    IN  CASE c.m = "exc" -> Machine(w, c, below)
          [] c.m = "expr" ->
              LET e == c.expr
              IN  (CASE e.k = "NoNode" -> Machine(w, Ret(NoneV), stack)
                    [] e.k = "Literal" -> Machine(w, Ret(e.value), stack)
                    [] e.k = "Var" -> Deliver(EnvGet(w, c.env, e.name), stack)
                    [] e.k = "UnaryOp" -> Machine(w, Expr(e.expr, c.env), wait(e, "operand"))
                    [] e.k = "BinaryOp" -> Machine(w, Expr(e.left, c.env), wait(e, "left"))
                    [] e.k = "IndexExpr" -> Machine(w, Expr(e.base, c.env), wait(e, "base"))
                    [] e.k \in {"CallExpr", "ColorLit", "PixelLit", "ListLit"} ->
                        IF items(e) = <<>> THEN ExprItemsDone(w, e, c.env, <<>>, stack)
                        ELSE Machine(w, Expr(items(e)[1], c.env),
                                     Append(stack, [g |-> "expr", at |-> "items", expr |-> e,
                                                    env |-> c.env, acc |-> <<>>]))
                    [] e.k \in {"ParenExpr", "WalrusAssign", "WalrusDecl"} ->
                        Machine(w, Expr(e.expr, c.env), wait(e, "inner"))
                    [] OTHER -> Machine(w, Exn(RuntimeErrorWithLine(e.line)), stack))
          [] c.m = "ret" /\ top.at = "operand" ->
              Deliver(eval_unary(w, top.expr.op, c.val, top.expr.line), below)
          [] c.m = "ret" /\ top.at = "left" ->
              Machine(w, Expr(top.expr.right, top.env),
                      Append(below, [g |-> "expr", at |-> "right", expr |-> top.expr,
                                     env |-> top.env, left |-> c.val]))
          [] c.m = "ret" /\ top.at = "right" ->
              Deliver(eval_binary(w, top.expr.op, top.left, c.val, top.expr.line), below)
          [] c.m = "ret" /\ top.at = "base" ->
              Machine(w, Expr(top.expr.index, top.env),
                      Append(below, [g |-> "expr", at |-> "index", expr |-> top.expr,
                                     env |-> top.env, base |-> c.val]))
          [] c.m = "ret" /\ top.at = "index" ->
              IF ~IsInt(c.val) THEN Machine(w, Exn(RuntimeErrorWithLine(top.expr.line)), below)
              ELSE Deliver(Subscript(w, top.base, c.val), below)
          [] c.m = "ret" /\ top.at = "items" ->
              IF Len(acc) < Len(items(top.expr))
              THEN Machine(w, Expr(items(top.expr)[Len(acc) + 1], top.env),
                           Append(below, [top EXCEPT !.acc = acc]))
              ELSE ExprItemsDone(w, top.expr, top.env, acc, below)
          [] c.m = "ret" /\ top.at = "call" -> Machine(w, c, below)
          [] c.m = "ret" /\ top.at = "inner" ->
              (CASE top.expr.k = "ParenExpr" -> Machine(w, c, below)
                [] top.expr.k = "WalrusAssign" ->
                    IF Failed(set) THEN Machine(w, Exn(set.exc), below)
                    ELSE Machine(set.w, c, below)
                [] top.expr.k = "WalrusDecl" ->
                    Machine(EnvDefine(w, top.env, top.expr.name, c.val), c, below))

\* call_function_steps
CallSteps(w, c, stack) ==
    LET fn == EnvGet(w, c.env, c.name)
        decl == fn.val.decl
        w1 == NewEnv(w, fn.val.closure)
        call_env == Len(w1.envs)
    IN  CASE c.m = "call" ->
              IF Failed(fn) THEN Machine(w, Exn(fn.exc), stack)
              ELSE IF fn.val.t = "builtin"
              THEN Deliver(CallBuiltin(w, fn.val.name, c.args, c.line), stack)
              ELSE IF fn.val.t = "FunctionValue" THEN
                  IF Len(c.args) # Len(decl.params)
                  THEN Machine(w1, Exn(RuntimeErrorWithLine(c.line)), stack)
                  ELSE Machine(BindParams(w1, call_env, decl.params, c.args),
                               Block(decl.body, call_env, 0, "function"),
                               Append(stack, [g |-> "call"]))
              ELSE Machine(w, Exn(RuntimeErrorWithLine(c.line)), stack)
          [] c.m = "ret" -> Machine(w, Ret(NoneV), Pop(stack))
          [] c.m = "exc" ->
              IF c.exc.type = "ReturnSignal" THEN Machine(w, Ret(c.exc.value), Pop(stack))
              ELSE Machine(w, c, Pop(stack))

\* ---------------------------------------------------------------------
\* State
\* ---------------------------------------------------------------------
VARIABLES
    program,        \* the parsed Program handed to the interpreter
    envs,           \* the Environment objects; envs[1] is Interpreter.globals
    frames,         \* the Frame objects
    lists,          \* the list objects
    last_modified_frame,    \* Interpreter._last_modified_frame (0: None)
    statement_end_handler,  \* whether Interpreter._statement_end_handler is set
    published,      \* the calls publish_handler received
    sent,           \* the calls send_handler received
    trace,          \* StepInfos, handler calls and marks, in order
    nsid,           \* statement ids handed out
    ctl,            \* what the running generator does next
    stack           \* the suspended generator frames

vars == <<program, envs, frames, lists, last_modified_frame, statement_end_handler,
          published, sent, trace, nsid, ctl, stack>>

\* the interpreter and its heap as the world record the operators work on
World ==
    [envs |-> envs, frames |-> frames, lists |-> lists, last |-> last_modified_frame,
     handler |-> statement_end_handler, published |-> published, sent |-> sent,
     trace |-> trace, nsid |-> nsid]

SetWorld(w) ==
    /\ envs' = w.envs
    /\ frames' = w.frames
    /\ lists' = w.lists
    /\ last_modified_frame' = w.last
    /\ statement_end_handler' = w.handler
    /\ published' = w.published
    /\ sent' = w.sent
    /\ trace' = w.trace
    /\ nsid' = w.nsid

\* the machine moves to m
Go(m) ==
    /\ SetWorld(m.w)
    /\ ctl' = m.ctl
    /\ stack' = m.stack
    /\ UNCHANGED program

\* the generator function g receives a value or an exception from the
\* generator it delegated to
Resumed(g) == ctl.m \in {"ret", "exc"} /\ stack # <<>> /\ Top(stack).g = g
ResumedStmt(kinds) == Resumed("stmt") /\ Top(stack).stmt.k \in kinds
EnteredStmt(kinds) == ctl.m = "stmt" /\ ctl.stmt.k \in kinds

\* ---------------------------------------------------------------------
\* The programs the interpreter is run on: parse results (Program.items),
\* written as the parser builds them.  In the comments `f->(x y)` is a
\* pixel pointer, `(r g b)` a color, `name{args}` a call.
\* ---------------------------------------------------------------------
Programs ==
    LET int(v, l) == Literal(IntV(v), l)
        var(n, l) == Var(n, l)
        col(r, g, b, l) == ColorLit(int(r, l), int(g, l), int(b, l), l)
        ptr(x, y, l) == BinaryOp("->", var("f", l), PixelLit(x, y, l), l)
        at(x, y, l) == ptr(int(x, l), int(y, l), l)
        call(n, args, l) == CallExpr(n, args, l)
        frame(l) == VarDecl("Frame", "f", NoNode, l)
        \* f->(x y) = (c c c).
        paint(x, y, c, l) == PixelAssign(at(x, y, l), col(c, c, c, l), l)
        stmt(e, l) == ExprStmt(e, l)
        \* one{} => int: int t = 1. return (t).
        one(l) == FunctionDecl("one", <<>>, "int",
                               <<VarDecl("int", "t", int(1, l + 1), l + 1),
                                 ReturnStmt(var("t", l + 2), l + 2)>>, l)
        Basic == <<frame(1), paint(1, 2, 3, 2), PublishStmt(var("f", 3), 3)>>
        Builtins ==
            <<VarDecl("Frame", "f", call("Frame", <<>>, 1), 1),
              stmt(call("setColor", <<at(0, 0, 2), col(1, 2, 3, 2)>>, 2), 2),
              stmt(call("setRed", <<at(0, 0, 3), int(7, 3)>>, 3), 3),
              VarDecl("color", "c", call("getPixel", <<at(0, 0, 4)>>, 4), 4),
              VarDecl("int", "g", call("getGreen", <<at(0, 0, 5)>>, 5), 5),
              stmt(call("makeRect", <<var("f", 6), PixelLit(int(1, 6), int(1, 6), 6),
                                      PixelLit(int(2, 6), int(2, 6), 6), var("c", 6)>>, 6), 6),
              stmt(call("makeLine", <<var("f", 7), PixelLit(int(0, 7), int(3, 7), 7),
                                      PixelLit(int(2, 7), int(5, 7), 7), col(4, 4, 4, 7)>>, 7), 7),
              Assign(var("g", 8), BinaryOp("+", var("g", 8), int(1, 8), 8), 8),
              PublishStmt(var("f", 9), 9)>>
        \* a 2x2 square, then Fill{f 0 0 (2 2 2)} recolors it
        FillSquare ==
            <<frame(1),
              stmt(call("makeRect", <<var("f", 2), PixelLit(int(0, 2), int(0, 2), 2),
                                      PixelLit(int(1, 2), int(1, 2), 2), col(1, 1, 1, 2)>>, 2), 2),
              stmt(call("Fill", <<var("f", 3), int(0, 3), int(0, 3), col(2, 2, 2, 3)>>, 3), 3),
              PublishStmt(var("f", 4), 4)>>
        \* list l = [setColor{f->(0 0) (1 1 1)} one{}].
        PaintThenCall ==
            <<one(1), frame(4),
              VarDecl("list", "l",
                      ListLit(<<call("setColor", <<at(0, 0, 5), col(1, 1, 1, 5)>>, 5),
                                call("one", <<>>, 5)>>, 5), 5)>>
        \* l<one{}> = 5.
        IndexTargetCall ==
            <<one(1), VarDecl("list", "l", ListLit(<<int(1, 4), int(2, 4)>>, 4), 4),
              Assign(IndexExpr(var("l", 5), call("one", <<>>, 5), 5), int(5, 5), 5)>>
        \* user functions called from the expressions of simple statements
        Calls ==
            <<one(1),
              FunctionDecl("same", <<Param("int", "v", 4)>>, "int",
                           <<ReturnStmt(var("v", 5), 5)>>, 4),
              frame(6),
              VarDecl("int", "a", call("one", <<>>, 7), 7),
              Assign(var("a", 8),
                     BinaryOp("+", call("one", <<>>, 8), UnaryOp("-", call("one", <<>>, 8), 8), 8), 8),
              PixelAssign(ptr(call("one", <<>>, 9), int(0, 9), 9),
                          ColorLit(int(0, 9), call("one", <<>>, 9), int(0, 9), 9), 9),
              VarDecl("list", "l",
                      ListLit(<<ParenExpr(call("one", <<>>, 10), 10),
                                call("same", <<call("one", <<>>, 10)>>, 10)>>, 10), 10),
              stmt(WalrusAssign("a", IndexExpr(var("l", 11), call("one", <<>>, 11), 11), 11), 11),
              PublishStmt(var("f", 12), 12)>>
        \* user functions called from the condition of an If and a While and
        \* from the iterable of a For
        CallsInHeads ==
            <<one(1), VarDecl("int", "i", int(0, 4), 4),
              IfStmt(call("one", <<>>, 5), <<Assign(var("i", 6), int(1, 6), 6)>>, NoBody, 5),
              WhileStmt(BinaryOp("<", var("i", 7), BinaryOp("+", call("one", <<>>, 7), int(1, 7), 7), 7),
                        <<Assign(var("i", 8), BinaryOp("+", var("i", 8), int(1, 8), 8), 8)>>, 7),
              ForStmt("int", "x", ListLit(<<call("one", <<>>, 9)>>, 9),
                      <<stmt(WalrusDecl("int", "y", var("x", 10), 10), 10)>>, 9)>>
        \* (c) ? f->(0 0) = ..  f->(1 0) = ..  !? f->(0 1) = .. !   f->(5 5) = ..
        IfProgram(c, else) ==
            <<frame(1),
              IfStmt(Literal(c, 2), <<paint(0, 0, 1, 3), paint(1, 0, 1, 4)>>,
                     IF else THEN <<paint(0, 1, 2, 5)>> ELSE NoBody, 2),
              paint(5, 5, 5, 6), PublishStmt(var("f", 7), 7)>>
        IfNested ==
            <<frame(1),
              IfStmt(int(1, 2),
                     <<IfStmt(Literal(StrV(""), 3), <<paint(0, 0, 1, 4)>>,
                              <<paint(1, 1, 2, 5), paint(2, 2, 2, 6)>>, 3),
                       paint(3, 3, 3, 7)>>,
                     <<paint(4, 4, 4, 8)>>, 2)>>
        \* the condition of the If paints; the statement in its body does not
        PaintInCondition ==
            <<frame(1), paint(2, 2, 2, 2), VarDecl("int", "n", int(0, 3), 3),
              IfStmt(BinaryOp("==", call("setColor", <<at(0, 0, 4), col(1, 1, 1, 4)>>, 4),
                              Literal(NoneV, 4), 4),
                     <<Assign(var("n", 5), int(1, 5), 5)>>, NoBody, 4),
              WhileStmt(BinaryOp("<", call("getRed", <<at(0, 0, 6)>>, 6), int(2, 6), 6),
                        <<stmt(call("setRed", <<at(0, 0, 7), int(2, 7)>>, 7), 7)>>, 6)>>
        \* int i = 0.  While (i < n): f->(i 0) = (1 1 1).  i = i + 1. !
        WhileProgram(n) ==
            <<VarDecl("int", "i", int(0, 1), 1), frame(2),
              WhileStmt(BinaryOp("<", var("i", 3), int(n, 3), 3),
                        <<PixelAssign(ptr(var("i", 4), int(0, 4), 4), col(1, 1, 1, 4), 4),
                          Assign(var("i", 5), BinaryOp("+", var("i", 5), int(1, 5), 5), 5)>>, 3),
              PublishStmt(var("f", 6), 6)>>
        \* For int x in [0 .. n-1]: f->(x x) = (1 1 1). !
        ForProgram(n) ==
            <<frame(1),
              ForStmt("int", "x", ListLit([i \in 1..n |-> int(i - 1, 2)], 2),
                      <<PixelAssign(ptr(var("x", 3), var("x", 3), 3), col(1, 1, 1, 3), 3)>>, 2),
              PublishStmt(var("f", 4), 4)>>
        \* loop{} => int: While (true): return (1). !     int r = loop{}.
        ReturnInLoop ==
            <<FunctionDecl("loop", <<>>, "int",
                           <<WhileStmt(Literal(BoolV(TRUE), 2), <<ReturnStmt(int(1, 3), 3)>>, 2)>>, 1),
              VarDecl("int", "r", call("loop", <<>>, 4), 4)>>
        ForNotList == <<ForStmt("", "x", int(3, 1), <<VarDecl("int", "y", NoNode, 2)>>, 1)>>
        UnknownName == <<VarDecl("int", "a", int(1, 1), 1), Assign(var("b", 2), var("a", 2), 2)>>
        WrongArity == <<one(1), VarDecl("int", "a", call("one", <<int(1, 4)>>, 4), 4)>>
        \* Frame f = LoadQGC{"path"}.  f->(0 0) = (1 1 1).  Publish f.
        Load(path) ==
            <<VarDecl("Frame", "f", call("LoadQGC", <<Literal(StrV(path), 1)>>, 1), 1),
              paint(0, 0, 1, 2), PublishStmt(var("f", 3), 3)>>
        TopReturn == <<frame(1), ReturnStmt(NoNode, 2), paint(0, 0, 1, 3)>>
        \* Frame f.  If (true): While (true): f->(1 1) = (1 1 1). return (1). ! !
        \* f->(0 0) = (1 1 1).
        TopReturnNested ==
            <<frame(1),
              IfStmt(Literal(BoolV(TRUE), 2),
                     <<WhileStmt(Literal(BoolV(TRUE), 3),
                                 <<paint(1, 1, 1, 4), ReturnStmt(int(1, 5), 5)>>, 3)>>,
                     NoBody, 2),
              paint(0, 0, 1, 6)>>
        \* Frame f.  For int x in [0 1]: return. f->(2 2) = (2 2 2). !  Publish f.
        TopReturnFor ==
            <<frame(1),
              ForStmt("int", "x", ListLit(<<int(0, 2), int(1, 2)>>, 2),
                      <<ReturnStmt(NoNode, 3), paint(2, 2, 2, 4)>>, 2),
              PublishStmt(var("f", 5), 5)>>
        PublishInt == <<VarDecl("list", "l", NoNode, 1), PublishStmt(int(1, 2), 2)>>
        \* f->(0 40) = (1 1 1) inside a function: row 40 does not exist
        OffFrame ==
            <<FunctionDecl("far", <<>>, "None", <<paint(0, 40, 1, 2)>>, 1), frame(3),
              paint(-1, -1, 1, 4), stmt(call("far", <<>>, 5), 5)>>
        \* early{int n} => int: For int x in [1 2 3]: (x == n) ? return (x). !  g = x. !
        \*                       return (0). !
        \* none{} => None: return.  g = 9. !        fall{} => None: int z = 1. !
        \* dot{} => int: return (setColor{f->(0 0) (1 1 1)}). !
        \* int g = 0.  int a = early{2}.  int b = none{}.  int c = fall{}.
        \* Frame f.  int d = dot{}.
        Returns ==
            <<FunctionDecl("early", <<Param("int", "n", 1)>>, "int",
                           <<ForStmt("int", "x", ListLit(<<int(1, 2), int(2, 2), int(3, 2)>>, 2),
                                     <<IfStmt(BinaryOp("==", var("x", 3), var("n", 3), 3),
                                              <<ReturnStmt(var("x", 3), 3)>>, NoBody, 3),
                                       Assign(var("g", 4), var("x", 4), 4)>>, 2),
                             ReturnStmt(int(0, 5), 5)>>, 1),
              FunctionDecl("none", <<>>, "None",
                           <<ReturnStmt(NoNode, 7), Assign(var("g", 8), int(9, 8), 8)>>, 6),
              FunctionDecl("fall", <<>>, "None", <<VarDecl("int", "z", int(1, 10), 10)>>, 9),
              VarDecl("int", "g", int(0, 11), 11),
              VarDecl("int", "a", call("early", <<int(2, 12)>>, 12), 12),
              VarDecl("int", "b", call("none", <<>>, 13), 13),
              VarDecl("int", "c", call("fall", <<>>, 14), 14),
              FunctionDecl("dot", <<>>, "int",
                           <<ReturnStmt(call("setColor", <<at(0, 0, 16), col(1, 1, 1, 16)>>, 16),
                                        16)>>, 15),
              frame(17),
              VarDecl("int", "d", call("dot", <<>>, 18), 18)>>
        \* Frame f.  f->(1 1) = (1 1 1).  Publish f.  int a = 1.
        \* For int x in [1 2]: a = a + x.  (a == 2) ? a = nope. !  f->(2 2) = (2 2 2). !
        \* a = 7.  Publish f.
        StopsAtError ==
            <<frame(1), paint(1, 1, 1, 2), PublishStmt(var("f", 3), 3),
              VarDecl("int", "a", int(1, 4), 4),
              ForStmt("int", "x", ListLit(<<int(1, 5), int(2, 5)>>, 5),
                      <<Assign(var("a", 6), BinaryOp("+", var("a", 6), var("x", 6), 6), 6),
                        IfStmt(BinaryOp("==", var("a", 7), int(2, 7), 7),
                               <<Assign(var("a", 8), var("nope", 8), 8)>>, NoBody, 7),
                        paint(2, 2, 2, 9)>>, 5),
              Assign(var("a", 10), int(7, 10), 10),
              PublishStmt(var("f", 11), 11)>>
        \* Do paint{} .   paint{} => None: Frame f = Frame{}.  f->(5 5) = (0 63 0).  Publish f. !
        ForwardCall ==
            <<stmt(call("paint", <<>>, 1), 1),
              FunctionDecl("paint", <<>>, "None",
                           <<VarDecl("Frame", "f", call("Frame", <<>>, 3), 3),
                             PixelAssign(at(5, 5, 4), col(0, 63, 0, 4), 4),
                             PublishStmt(var("f", 5), 5)>>, 2)>>
        \* down{int n} => int: (n == 0) ? return (0). !  int r = down{n - 1}.  return (n + r). !
        \* int a = down{2}.
        Recursion ==
            <<FunctionDecl("down", <<Param("int", "n", 1)>>, "int",
                           <<IfStmt(BinaryOp("==", var("n", 2), int(0, 2), 2),
                                    <<ReturnStmt(int(0, 2), 2)>>, NoBody, 2),
                             VarDecl("int", "r",
                                     call("down", <<BinaryOp("-", var("n", 3), int(1, 3), 3)>>, 3), 3),
                             ReturnStmt(BinaryOp("+", var("n", 4), var("r", 4), 4), 4)>>, 1),
              VarDecl("int", "a", call("down", <<int(2, 5)>>, 5), 5)>>
        \* int g = 1.   bump{int x int y} => None: g = g + y.  int t = x. !
        \* peek{} => int: return (x). !
        \* outer{int x} => int: bump{7 x}.  int u = 5.  return (peek{}). !
        \* int a = outer{5}.
        Scopes ==
            <<VarDecl("int", "g", int(1, 1), 1),
              FunctionDecl("bump", <<Param("int", "x", 2), Param("int", "y", 2)>>, "None",
                           <<Assign(var("g", 3), BinaryOp("+", var("g", 3), var("y", 3), 3), 3),
                             VarDecl("int", "t", var("x", 4), 4)>>, 2),
              FunctionDecl("peek", <<>>, "int", <<ReturnStmt(var("x", 6), 6)>>, 5),
              FunctionDecl("outer", <<Param("int", "x", 7)>>, "int",
                           <<stmt(call("bump", <<int(7, 8), var("x", 8)>>, 8), 8),
                             VarDecl("int", "u", int(5, 9), 9),
                             ReturnStmt(call("peek", <<>>, 10), 10)>>, 7),
              VarDecl("int", "a", call("outer", <<int(5, 11)>>, 11), 11)>>
        \* two{int p int q} => int: g = 1.  return (p). !
        \* wrap{} => int: Frame f.  f->(0 0) = (1 1 1).  int k = two{1}.  return (k). !
        \* int g = 0.  int a = wrap{}.
        ArityInside ==
            <<FunctionDecl("two", <<Param("int", "p", 1), Param("int", "q", 1)>>, "int",
                           <<Assign(var("g", 2), int(1, 2), 2), ReturnStmt(var("p", 3), 3)>>, 1),
              FunctionDecl("wrap", <<>>, "int",
                           <<frame(5), paint(0, 0, 1, 6),
                             VarDecl("int", "k", call("two", <<int(1, 7)>>, 7), 7),
                             ReturnStmt(var("k", 8), 8)>>, 4),
              VarDecl("int", "g", int(0, 9), 9),
              VarDecl("int", "a", call("wrap", <<>>, 10), 10)>>
        \* sum{} => int: int s = 0.
        \*     For int x in [3 4]: (later) ? s = s + y. !  int y = x.  s = s + y. !
        \*     int z = x.  return (s). !
        \* int a = sum{}.
        \* later = (x == 4): the second iteration reads the y of the first;
        \* later = false: the statement after the loop reads x
        LoopScope(later) ==
            <<FunctionDecl("sum", <<>>, "int",
                           <<VarDecl("int", "s", int(0, 2), 2),
                             ForStmt("int", "x", ListLit(<<int(3, 3), int(4, 3)>>, 3),
                                     <<IfStmt(later,
                                              <<Assign(var("s", 4),
                                                       BinaryOp("+", var("s", 4), var("y", 4), 4), 4)>>,
                                              NoBody, 4),
                                       VarDecl("int", "y", var("x", 5), 5),
                                       Assign(var("s", 6),
                                              BinaryOp("+", var("s", 6), var("y", 6), 6), 6)>>, 3),
                             VarDecl("int", "z", var("x", 7), 7),
                             ReturnStmt(var("s", 8), 8)>>, 1),
              VarDecl("int", "a", call("sum", <<>>, 9), 9)>>
        \* int x = 0.  bool b = false and (x = 1).  bool c = true or one{}.
        ShortCircuit ==
            <<one(1), VarDecl("int", "x", int(0, 4), 4),
              VarDecl("bool", "b",
                      BinaryOp("and", Literal(BoolV(FALSE), 5), WalrusAssign("x", int(1, 5), 5), 5), 5),
              VarDecl("bool", "c",
                      BinaryOp("or", Literal(BoolV(TRUE), 6), call("one", <<>>, 6), 6), 6)>>
        \* Frame f.  f->(3 3) = (3 3 3).  <pointer> = <value>.  f->(4 4) = (4 4 4).
        BadPixel(pointer, value) ==
            <<frame(1), paint(3, 3, 3, 2), PixelAssign(pointer, value, 3), paint(4, 4, 4, 4)>>
        \* Frame f.  f->(1 1) = (1 1 1).  Publish f.  f->(2 2) = (2 2 2).  Publish f.
        Republish ==
            <<frame(1), paint(1, 1, 1, 2), PublishStmt(var("f", 3), 3), paint(2, 2, 2, 4),
              PublishStmt(var("f", 5), 5)>>
    IN  <<Basic, Builtins, FillSquare, PaintThenCall, IndexTargetCall, Calls, CallsInHeads,
          IfNested, PaintInCondition, ReturnInLoop, ForNotList, UnknownName, WrongArity,
          TopReturn, PublishInt, OffFrame, Returns, StopsAtError, ForwardCall, Recursion, Scopes, ArityInside,
          LoopScope(BinaryOp("==", var("x", 4), int(4, 4), 4)), LoopScope(Literal(BoolV(FALSE), 4)), ShortCircuit,
          Republish,
          BadPixel(var("f", 3), col(1, 1, 1, 3)),
          BadPixel(at(3, 3, 3), PixelLit(int(1, 3), int(1, 3), 3)),
          IfProgram(BoolV(TRUE), TRUE), IfProgram(BoolV(TRUE), FALSE),
          IfProgram(BoolV(FALSE), TRUE), IfProgram(BoolV(FALSE), FALSE)>>
        \o [n \in 1..(MaxIter + 1) |-> WhileProgram(n - 1)]
        \o [n \in 1..(MaxItems + 1) |-> ForProgram(n - 1)]
        \o <<Load("saved.qgc"), Load("short.qgc"), Load("other.qgc"), TopReturnNested,
              TopReturnFor>>

\* ---------------------------------------------------------------------
\* Init and the actions
\* ---------------------------------------------------------------------
Init ==
    /\ \E i \in 1..Len(Programs) : program = Programs[i]
    /\ envs = NewInterpreter(FALSE).envs
    /\ frames = <<>>
    /\ lists = <<>>
    /\ last_modified_frame = 0
    /\ statement_end_handler = FALSE
    /\ published = <<>>
    /\ sent = <<>>
    /\ trace = <<>>
    /\ nsid = 0
    /\ ctl = [m |-> "new"]
    /\ stack = <<>>

\* run_source / run_file: the whole program, eagerly
ExecuteProgram ==
    /\ ctl.m = "new"
    /\ LET ran(r) == Go(Machine(r.w, [m |-> "ran", exc |-> r.exc], <<>>))
       IN  ran(execute_program(World, program))

\* run_source_steps: installs the handler (or None) and returns the generator
RunSourceSteps ==
    /\ ctl.m = "new"
    /\ \E handler \in BOOLEAN :
          Go(Machine([World EXCEPT !.handler = handler], [m |-> "start"], <<>>))

\* the driver calls next() on the generator that yielded
DriverNext ==
    /\ ctl.m = "yield"
    /\ Go(Machine(World, Ret(NoneV), stack))

ExecuteProgramSteps ==
    /\ ctl.m = "start" \/ Resumed("program")
    /\ Go(ProgramSteps(World, ctl, stack, program))

ExecuteBlockSteps ==
    /\ ctl.m = "block" \/ Resumed("block")
    /\ Go(BlockSteps(World, ctl, stack))

ExecuteIfSteps ==
    /\ EnteredStmt({"IfStmt"}) \/ ResumedStmt({"IfStmt"})
    /\ Go(IfSteps(World, ctl, stack))

ExecuteWhileSteps ==
    /\ EnteredStmt({"WhileStmt"}) \/ ResumedStmt({"WhileStmt"})
    /\ Go(WhileSteps(World, ctl, stack))

ExecuteForSteps ==
    /\ EnteredStmt({"ForStmt"}) \/ ResumedStmt({"ForStmt"})
    /\ Go(ForSteps(World, ctl, stack))

ExecuteSimpleSteps ==
    /\ EnteredStmt(SimpleKinds) \/ ResumedStmt(SimpleKinds)
    /\ Go(SimpleSteps(World, ctl, stack))

EvalExprSteps ==
    /\ ctl.m = "expr" \/ Resumed("expr")
    /\ Go(ExprSteps(World, ctl, stack))

CallFunctionSteps ==
    /\ ctl.m = "call" \/ Resumed("call")
    /\ Go(CallSteps(World, ctl, stack))

Next ==
    \/ ExecuteProgram
    \/ RunSourceSteps
    \/ DriverNext
    \/ ExecuteProgramSteps
    \/ ExecuteBlockSteps
    \/ ExecuteIfSteps
    \/ ExecuteWhileSteps
    \/ ExecuteForSteps
    \/ ExecuteSimpleSteps
    \/ EvalExprSteps
    \/ CallFunctionSteps

Spec == Init /\ [][Next]_vars

\* ---------------------------------------------------------------------
\* Environment (interpreter.py 82-104) on its own: one call of define, set
\* or get on an environment of a chain the interpreter can build.  The
\* globals hold the built-ins; environment e holds each name of held[e],
\* bound to the integer e; the call passes the value 0.
\* ---------------------------------------------------------------------
MaxEnvs == 3

EnvInit ==
    /\ \E n \in 1..MaxEnvs :
       \E parent \in [1..n -> 0..(n - 1)] :
       \E held \in [1..n -> SUBSET {"a", "b"}] :
          /\ \A e \in 1..n : parent[e] < e /\ (parent[e] = 0 <=> e = 1)
          /\ envs = [e \in 1..n |->
                        [parent |-> parent[e],
                         values |-> [nm \in held[e] \cup (IF e = 1 THEN BuiltinNames ELSE {}) |->
                                        IF nm \in held[e] THEN IntV(e) ELSE Builtin(nm)]]]
    /\ \E op \in {"define", "set", "get"} :
       \E env \in 1..Len(envs) :
       \E name \in {"a", "b"} :
          ctl = [m |-> "env", op |-> op, env |-> env, name |-> name, value |-> IntV(0)]
    /\ program = <<>>
    /\ frames = <<>>
    /\ lists = <<>>
    /\ last_modified_frame = 0
    /\ statement_end_handler = FALSE
    /\ published = <<>>
    /\ sent = <<>>
    /\ trace = <<>>
    /\ nsid = 0
    /\ stack = <<>>

\* the call returned val or raised exc
Returned(r) ==
    /\ SetWorld(r.w)
    /\ ctl' = [m |-> "returned", op |-> ctl.op, env |-> ctl.env, name |-> ctl.name,
               value |-> ctl.value, val |-> r.val, exc |-> r.exc]
    /\ UNCHANGED <<program, stack>>

EnvironmentDefine ==
    /\ ctl.m = "env" /\ ctl.op = "define"
    /\ Returned(Ok(EnvDefine(World, ctl.env, ctl.name, ctl.value), NoneV))

EnvironmentSet ==
    /\ ctl.m = "env" /\ ctl.op = "set"
    /\ Returned(EnvSet(World, ctl.env, ctl.name, ctl.value))

EnvironmentGet ==
    /\ ctl.m = "env" /\ ctl.op = "get"
    /\ Returned(EnvGet(World, ctl.env, ctl.name))

EnvNext ==
    \/ EnvironmentDefine
    \/ EnvironmentSet
    \/ EnvironmentGet

EnvSpec == EnvInit /\ [][EnvNext]_vars

\* ---------------------------------------------------------------------
\* eval_unary and eval_binary (interpreter.py 460-510) on their own: one
\* application of ~, | or & to operands the language can produce: integers
\* (negative ones, the ends of the 32-bit ranges, values with bits on both
\* sides of bit 15 and bit 31), booleans, integers a mask produced, and
\* values that are not numbers.
\* ---------------------------------------------------------------------
BitOperands ==
    {IntV(n) : n \in {-2147483647 - 1, -2147483647, -65537, -65536, -65535, -2, -1, 0, 1, 2, 5,
                      255, 32768, 65535, 65536, 2147483647}}
        \cup {BoolV(TRUE), BoolV(FALSE)}
        \cup {LongV(32768, 0), LongV(43690, 21845), LongV(65535, 65535)}
        \cup {StrV("1"), NoneV, TupleV(<<IntV(1), IntV(2)>>)}

BitInit ==
    /\ \E op \in {"~", "|", "&"} :
       \E left \in BitOperands :
       \E right \in IF op = "~" THEN {NoneV} ELSE BitOperands :
          ctl = [m |-> "bits", op |-> op, left |-> left, right |-> right, line |-> 1]
    /\ program = <<>>
    /\ envs = NewInterpreter(FALSE).envs
    /\ frames = <<>>
    /\ lists = <<>>
    /\ last_modified_frame = 0
    /\ statement_end_handler = FALSE
    /\ published = <<>>
    /\ sent = <<>>
    /\ trace = <<>>
    /\ nsid = 0
    /\ stack = <<>>

\* the operator returned val or raised exc
Evaluated(r) ==
    /\ SetWorld(r.w)
    /\ ctl' = [m |-> "evaluated", op |-> ctl.op, left |-> ctl.left, right |-> ctl.right,
               line |-> ctl.line, val |-> r.val, exc |-> r.exc]
    /\ UNCHANGED <<program, stack>>

EvalUnary ==
    /\ ctl.m = "bits" /\ ctl.op = "~"
    /\ Evaluated(eval_unary(World, ctl.op, ctl.left, ctl.line))

EvalBinary ==
    /\ ctl.m = "bits" /\ ctl.op \in {"|", "&"}
    /\ Evaluated(eval_binary(World, ctl.op, ctl.left, ctl.right, ctl.line))

BitNext ==
    \/ EvalUnary
    \/ EvalBinary

BitSpec == BitInit /\ [][BitNext]_vars

\* ---------------------------------------------------------------------
\* The lexer and the parser (lexer.py, parser.py) on one-line sources.  A
\* source is the sequence of its lexemes, [c, text]: c tells whether the
\* characters are a word (letters, digits, _), digits, a quoted string or
\* an operator.  A Token is [type, value, line]; an INT token carries its
\* digits as value.
\* ---------------------------------------------------------------------
KEYWORDS ==
    {"Frame", "int", "color", "pixel", "bool", "string", "list", "None", "true", "false",
     "none", "Do", "Publish", "return", "While", "For", "in", "if", "and", "or", "xor", "not"}

TYPE_KEYWORDS == {"Frame", "int", "color", "pixel", "bool", "string", "list", "None"}

Token(type, value, line) == [type |-> type, value |-> value, line |-> line]

lex_source(source) ==
    [i \in 1..Len(source) |->
        Token(CASE source[i].c = "quoted" -> "STRING"
                [] source[i].c = "digits" -> "INT"
                [] source[i].c = "word" -> IF source[i].text \in KEYWORDS THEN "KW" ELSE "IDENT"
                [] source[i].c = "op" -> "SYM",
              source[i].text, 1)]
        \o <<Token("EOF", "EOF", 1)>>

\* int("".join(buf)), for the digit strings the sources of the model use
IntOf(digits) == CASE digits = "0" -> 0 [] digits = "1" -> 1 [] digits = "2" -> 2

\* the scan of _is_function_decl and _looks_like_if from token pos (0-based):
\* the value of the token after the first `close` that brings the depth
\* back to 0, "" when there is none
AfterMatching(t, pos, open, close) ==
    LET count(v, i) == Cardinality({j \in (pos + 1)..i : t[j].value = v})
        closing == {i \in (pos + 1)..Len(t) :
                       t[i].value = close /\ count(open, i) = count(close, i)}
        first == CHOOSE i \in closing : \A j \in closing : i <= j
    IN  IF closing = {} \/ first >= Len(t) THEN "" ELSE t[first + 1].value

\* The methods of Parser, by name, on the token list t with self.pos =
\* pos: the result is [pos, node, err], err = "" when the method returns.
\* `left` is the expression (or the list of items) a loop of the method
\* has built so far, NoNode when the method starts.
\* the cursor is left behind the "<" of the abandoned index
BacktrackNotRestored(saved, left) == [pos |-> saved + 1, node |-> left, err |-> ""]

\* parse_postfix_expr, except ParseError: self.pos = saved; break -- the
\* loop ends with the expression parsed so far and the cursor on the "<"
Backtrack(saved, left) == [pos |-> saved, node |-> left, err |-> ""]

RECURSIVE Parser(_, _, _, _)
Parser(method, t, pos, left) ==
    LET cur == t[pos + 1]
        line(p) == t[p + 1].line
        value(p) == t[p + 1].value
        peek_value(k) == IF pos + k >= Len(t) THEN "" ELSE t[pos + k + 1].value
        peek_type(k) == IF pos + k >= Len(t) THEN "" ELSE t[pos + k + 1].type
        good(p, n) == [pos |-> p, node |-> n, err |-> ""]
        ParseError == [pos |-> pos, node |-> NoNode, err |-> "ParseError"]
        Unmodelled == [pos |-> pos, node |-> NoNode, err |-> "Unmodelled"]
        start == left.k = "NoNode"
        \* expect_value(v) at position p, then the node n
        close(p, v, n) == IF value(p) = v THEN good(p + 1, n) ELSE ParseError
        lower == [parse_pointer_expr |-> "parse_bool_expr",
                  parse_bool_expr |-> "parse_compare_expr",
                  parse_bitor_expr |-> "parse_bitand_expr",
                  parse_bitand_expr |-> "parse_add_expr",
                  parse_add_expr |-> "parse_mul_expr",
                  parse_mul_expr |-> "parse_unary_expr"]
        ops == [parse_pointer_expr |-> {"->"},
                parse_bool_expr |-> {"and", "or", "xor"},
                parse_bitor_expr |-> {"|"},
                parse_bitand_expr |-> {"&"},
                parse_add_expr |-> {"+", "-"},
                parse_mul_expr |-> {"*"}]
        \* left = <lower>; while current in ops: right = <lower>; left = BinaryOp
        level ==
            LET first(l) == IF l.err # "" THEN l ELSE Parser(method, t, l.pos, l.node)
                more(r) == IF r.err # "" THEN r
                           ELSE Parser(method, t, r.pos,
                                       BinaryOp(cur.value, left, r.node, line(r.pos)))
            IN  IF start THEN first(Parser(lower[method], t, pos, NoNode))
                ELSE IF cur.value \in ops[method]
                THEN more(Parser(lower[method], t, pos + 1, NoNode))
                ELSE good(pos, left)
        compare ==
            LET right(l, r) == IF r.err # "" THEN r
                               ELSE good(r.pos, BinaryOp(value(l.pos), l.node, r.node, line(r.pos)))
                first(l) == IF l.err # "" THEN l
                            ELSE IF value(l.pos) \in {"==", "<", ">", "<=", ">="}
                            THEN right(l, Parser("parse_bitor_expr", t, l.pos + 1, NoNode))
                            ELSE l
            IN  first(Parser("parse_bitor_expr", t, pos, NoNode))
        unary ==
            LET operand(e) == IF e.err # "" THEN e
                              ELSE good(e.pos, UnaryOp(cur.value, e.node, line(e.pos)))
            IN  IF cur.value \in {"not", "~", "-"}
                THEN operand(Parser("parse_unary_expr", t, pos + 1, NoNode))
                ELSE Parser("parse_postfix_expr", t, pos, NoNode)
        \* expr = primary; while current is "<": try < index > else restore
        postfix ==
            LET first(e) == IF e.err # "" THEN e ELSE Parser(method, t, e.pos, e.node)
                index(i) ==
                    IF i.err = "ParseError" THEN Backtrack(pos, left)
                    ELSE IF i.err # "" THEN i
                    ELSE IF value(i.pos) # ">" THEN Backtrack(pos, left)
                    ELSE Parser(method, t, i.pos + 1, IndexExpr(left, i.node, line(i.pos + 1)))
            IN  IF start THEN first(Parser("parse_primary_expr", t, pos, NoNode))
                ELSE IF cur.value = "<" THEN index(Parser("parse_bitor_expr", t, pos + 1, NoNode))
                ELSE good(pos, left)
        \* parse_brace_call after the name, whose token is at pos - 1
        brace_call(call_line) ==
            LET args(a) == IF a.err # "" THEN a
                           ELSE close(a.pos, "}", CallExpr(value(pos - 1), a.node.items, call_line))
            IN  IF cur.value # "{" THEN ParseError
                ELSE args(Parser("items", t, pos + 1, ListLit(<<>>, "}")))
        primary ==
            IF cur.value \in TYPE_KEYWORDS /\ peek_value(1) = "(" /\ peek_value(2) = ")"
            THEN good(pos + 3, CallExpr(cur.value, <<>>, cur.line))
            ELSE IF cur.type = "INT" THEN good(pos + 1, Literal(IntV(IntOf(cur.value)), cur.line))
            ELSE IF cur.type = "STRING" THEN good(pos + 1, Literal(StrV(cur.value), cur.line))
            ELSE IF cur.value \in {"true", "false", "none"}
            THEN good(pos + 1, Literal(IF cur.value = "true" THEN BoolV(TRUE)
                                       ELSE IF cur.value = "false" THEN BoolV(FALSE)
                                       ELSE NoneV, cur.line))
            ELSE IF cur.value = "Do" THEN
                IF peek_type(1) # "IDENT" THEN ParseError
                ELSE Parser("parse_brace_call", t, pos + 2, Literal(NoneV, cur.line))
            ELSE IF cur.type = "IDENT" THEN
                IF peek_value(1) = "{"
                THEN Parser("parse_brace_call", t, pos + 1, Literal(NoneV, cur.line))
                ELSE good(pos + 1, Var(cur.value, cur.line))
            ELSE IF cur.value = "[" THEN
                LET items(a) == IF a.err # "" THEN a
                                ELSE close(a.pos, "]", ListLit(a.node.items, cur.line))
                IN  items(Parser("items", t, pos + 1, ListLit(<<>>, "]")))
            ELSE IF cur.value = "(" THEN Parser("parse_paren_expr", t, pos, NoNode)
            ELSE ParseError
        \* while current is not the closing symbol: items.append(parse_expr());
        \* left is the ListLit of the items so far, its line the closing symbol
        items ==
            LET more(e) == IF e.err # "" THEN e
                           ELSE Parser(method, t, e.pos, ListLit(Append(left.items, e.node), left.line))
            IN  IF cur.value = left.line THEN good(pos, left)
                ELSE more(Parser("parse_pointer_expr", t, pos, NoNode))
        paren ==
            LET walrus_decl(e) ==
                    IF e.err # "" THEN e
                    ELSE close(e.pos, ")", WalrusDecl(value(pos + 1), value(pos + 2), e.node, cur.line))
                walrus(e) ==
                    IF e.err # "" THEN e
                    ELSE close(e.pos, ")", WalrusAssign(value(pos + 1), e.node, cur.line))
                third(e1, e2, e3) ==
                    IF e3.err # "" THEN e3
                    ELSE close(e3.pos, ")", ColorLit(e1.node, e2.node, e3.node, cur.line))
                second(e1, e2) ==
                    IF e2.err # "" THEN e2
                    ELSE IF value(e2.pos) = ")" THEN good(e2.pos + 1, PixelLit(e1.node, e2.node, cur.line))
                    ELSE third(e1, e2, Parser("parse_pointer_expr", t, e2.pos, NoNode))
                first(e1) ==
                    IF e1.err # "" THEN e1
                    ELSE IF value(e1.pos) = ")" THEN good(e1.pos + 1, ParenExpr(e1.node, cur.line))
                    ELSE second(e1, Parser("parse_pointer_expr", t, e1.pos, NoNode))
            IN  IF peek_value(1) \in TYPE_KEYWORDS /\ peek_type(2) = "IDENT" /\ peek_value(3) = "="
                THEN walrus_decl(Parser("parse_pointer_expr", t, pos + 4, NoNode))
                ELSE IF peek_type(1) = "IDENT" /\ peek_value(2) = "="
                THEN walrus(Parser("parse_pointer_expr", t, pos + 3, NoNode))
                ELSE first(Parser("parse_pointer_expr", t, pos + 1, NoNode))
        simple_stmt ==
            LET var_decl(e) == IF e.err # "" THEN e
                               ELSE good(e.pos, VarDecl(cur.value, value(pos + 1), e.node, line(pos + 1)))
                publish_stmt(e) == IF e.err # "" THEN e ELSE good(e.pos, PublishStmt(e.node, cur.line))
                return_stmt(e) == IF e.err # "" THEN e
                                  ELSE close(e.pos, ")", ReturnStmt(e.node, cur.line))
                assignment(target, e) ==
                    IF e.err # "" THEN e
                    ELSE IF target.node.k \in {"Var", "IndexExpr"}
                    THEN good(e.pos, Assign(target.node, e.node, cur.line))
                    ELSE IF target.node.k = "BinaryOp" /\ target.node.op = "->"
                    THEN good(e.pos, PixelAssign(target.node, e.node, cur.line))
                    ELSE ParseError
                assignment_or_expr(e) ==
                    IF e.err # "" THEN e
                    ELSE IF value(e.pos) = "="
                    THEN assignment(e, Parser("parse_pointer_expr", t, e.pos + 1, NoNode))
                    ELSE good(e.pos, ExprStmt(e.node, cur.line))
            IN  IF cur.value \in TYPE_KEYWORDS THEN
                    IF peek_type(1) # "IDENT" THEN ParseError
                    ELSE IF peek_value(2) = "="
                    THEN var_decl(Parser("parse_pointer_expr", t, pos + 3, NoNode))
                    ELSE good(pos + 2, VarDecl(cur.value, value(pos + 1), NoNode, line(pos + 1)))
                ELSE IF cur.value = "Publish"
                THEN publish_stmt(Parser("parse_pointer_expr", t, pos + 1, NoNode))
                ELSE IF cur.value = "return" THEN
                    IF peek_value(1) = "("
                    THEN return_stmt(Parser("parse_pointer_expr", t, pos + 2, NoNode))
                    ELSE good(pos + 1, ReturnStmt(NoNode, cur.line))
                ELSE assignment_or_expr(Parser("parse_pointer_expr", t, pos, NoNode))
        statement ==
            LET dot(s) == IF s.err # "" THEN s ELSE close(s.pos, ".", s.node)
            IN  IF cur.value = "if" \/ (cur.value = "(" /\ AfterMatching(t, pos, "(", ")") = "?")
                THEN Unmodelled
                ELSE IF cur.value \in {"While", "For"} THEN Unmodelled
                ELSE dot(Parser("parse_simple_stmt", t, pos, NoNode))
        \* while current is not EOF: items.append(...); left lists the items
        items_of_program ==
            LET more(s) == IF s.err # "" THEN s
                           ELSE Parser(method, t, s.pos, ListLit(Append(left.items, s.node), 0))
            IN  IF cur.type = "EOF" THEN good(pos, left)
                ELSE IF cur.type = "IDENT" /\ peek_value(1) = "{"
                        /\ AfterMatching(t, pos, "{", "}") = "=>"
                THEN Unmodelled
                ELSE more(Parser("parse_statement", t, pos, NoNode))
    IN  CASE method \in DOMAIN lower -> level
          [] method = "parse_compare_expr" -> compare
          [] method = "parse_unary_expr" -> unary
          [] method = "parse_postfix_expr" -> postfix
          [] method = "parse_primary_expr" -> primary
          [] method = "parse_brace_call" -> brace_call(left.line)
          [] method = "items" -> items
          [] method = "parse_paren_expr" -> paren
          [] method = "parse_simple_stmt" -> simple_stmt
          [] method = "parse_statement" -> statement
          [] method = "parse_program" -> items_of_program

\* parse(tokens): Program.items, or the error raised
parse(tokens) == Parser("parse_program", tokens, 0, ListLit(<<>>, 0))

\* the sources the lexer and the parser are run on: a statement head, an
\* expression and the closing dot, or no dot
Sources ==
    LET word(s) == <<[c |-> "word", text |-> s]>>
        digits(s) == <<[c |-> "digits", text |-> s]>>
        quoted(s) == <<[c |-> "quoted", text |-> s]>>
        op(s) == <<[c |-> "op", text |-> s]>>
        heads == {word("Send"), word("Publish"), <<>>, word("return"),
                  word("x") \o op("="), word("int") \o word("x") \o op("="),
                  word("f") \o op("->") \o op("(") \o digits("1") \o digits("2") \o op(")")
                      \o op("=")}
        exprs == {quoted("a.qgc"), word("path"), digits("1"),
                  op("(") \o word("path") \o op(")"),
                  word("Do") \o word("name") \o op("{") \o digits("0") \o op("}"),
                  word("name") \o op("{") \o op("}"),
                  digits("1") \o op("+") \o digits("2"),
                  op("[") \o digits("1") \o digits("2") \o op("]"),
                  word("l") \o op("<") \o digits("0") \o op(">"),
                  op("-") \o digits("1"),
                  op("(") \o digits("1") \o digits("2") \o digits("0") \o op(")"),
                  word("a") \o op("<") \o word("b"),
                  word("a") \o op("<") \o word("b") \o op(">") \o word("c"),
                  word("a") \o op("<") \o word("b") \o op("<") \o word("c") \o op(">"),
                  word("a") \o op("<")}
    IN  {h \o e \o d : h \in heads, e \in exprs, d \in {op("."), <<>>}}

ParseInit ==
    /\ \E source \in Sources : ctl = [m |-> "source", source |-> source]
    /\ program = <<>>
    /\ envs = <<>>
    /\ frames = <<>>
    /\ lists = <<>>
    /\ last_modified_frame = 0
    /\ statement_end_handler = FALSE
    /\ published = <<>>
    /\ sent = <<>>
    /\ trace = <<>>
    /\ nsid = 0
    /\ stack = <<>>

LexSource ==
    /\ ctl.m = "source"
    /\ ctl' = [m |-> "tokens", source |-> ctl.source, tokens |-> lex_source(ctl.source)]
    /\ UNCHANGED <<program, envs, frames, lists, last_modified_frame, statement_end_handler,
                   published, sent, trace, nsid, stack>>

\* parse(tokens); the Program's items become the program to run
ParseTokens ==
    /\ ctl.m = "tokens"
    /\ LET parsed(r) ==
               /\ ctl' = [m |-> "parsed", source |-> ctl.source, tokens |-> ctl.tokens,
                          err |-> r.err]
               /\ program' = IF r.err = "" THEN r.node.items ELSE <<>>
       IN  parsed(parse(ctl.tokens))
    /\ UNCHANGED <<envs, frames, lists, last_modified_frame, statement_end_handler,
                   published, sent, trace, nsid, stack>>

ParseNext ==
    \/ LexSource
    \/ ParseTokens

ParseSpec == ParseInit /\ [][ParseNext]_vars

\* ---------------------------------------------------------------------
\* The Frame engine on its own (engine.py): one Frame with an on-change
\* callback installed, and a sequence of at most MaxOps calls of its
\* raster operations.  trace holds the marks of the last call: "change"
\* for every store that changed a cell, "notify" for every call of the
\* callback.
\* ---------------------------------------------------------------------
MaxOps == 3
\* fill is called only where the region of the seed has at most MaxFill
\* pixels
MaxFill == 16

\* the pixels <<x, y>> of the display d that 4-neighbour steps from the set
\* S reach through pixels of the color `target`, given up once more than
\* MaxFill are found
RECURSIVE Region(_, _, _)
Region(d, S, target) ==
    LET near == {q \in UNION {{<<p[1] - 1, p[2]>>, <<p[1] + 1, p[2]>>,
                                <<p[1], p[2] - 1>>, <<p[1], p[2] + 1>>} : p \in S} :
                    InWindow(q[1], q[2]) /\ d[q[2] + 1][q[1] + 1] = target}
    IN  IF near \subseteq S \/ Cardinality(S) > MaxFill THEN S
        ELSE Region(d, S \cup near, target)

\* Frame.moveSelection, one of its two loops: `clear` for the first
\* (setColor(x, y, 0, 0, 0) at the listed positions), otherwise the second
\* (the listed colors at the moved positions)
RECURSIVE MovePass(_, _, _, _, _, _)
MovePass(w, f, pixels, dx, dy, clear) ==
    IF pixels = <<>> THEN Ok(w, NoneV)
    ELSE LET x == Head(pixels)[1][1]
             y == Head(pixels)[1][2]
             color == IF clear THEN Black ELSE Head(pixels)[2]
             rest(s) == IF Failed(s) THEN s ELSE MovePass(s.w, f, Tail(pixels), dx, dy, clear)
         IN  IF InWindow(x + dx, y + dy)
             THEN rest(FrameSetColor(w, f, IntV(x + dx), IntV(y + dy),
                                     color.v[1], color.v[2], color.v[3]))
             ELSE rest(Ok(w, NoneV))

\* a moveSelection with one loop: each listed pixel is cleared and at
\* once drawn at its destination
RECURSIVE MoveOneLoop(_, _, _, _, _)
MoveOneLoop(w, f, pixels, dx, dy) ==
    IF pixels = <<>> THEN Ok(w, NoneV)
    ELSE LET one == <<Head(pixels)>>
             rest(s) == IF Failed(s) THEN s ELSE MoveOneLoop(s.w, f, Tail(pixels), dx, dy)
             draw(cleared) == IF Failed(cleared) THEN cleared
                              ELSE MovePass(cleared.w, f, one, dx, dy, FALSE)
         IN  rest(draw(MovePass(w, f, one, 0, 0, TRUE)))

\* a moveSelection that draws the moved pixels first and clears the
\* originals afterwards
MoveDrawThenClear(w, f, pixels, dx, dy) ==
    LET clear(drawn) == IF Failed(drawn) THEN drawn
                        ELSE MovePass(drawn.w, f, pixels, 0, 0, TRUE)
    IN  clear(MovePass(w, f, pixels, dx, dy, FALSE))

\* Frame.moveSelection: the clearing loop, then the drawing loop
FrameMoveSelection(w, f, pixels, dx, dy) ==
    LET draw(cleared) == IF Failed(cleared) THEN cleared
                         ELSE MovePass(cleared.w, f, pixels, dx, dy, FALSE)
    IN  draw(MovePass(w, f, pixels, 0, 0, TRUE))

Red == Color(IntV(31), IntV(0), IntV(0))
Blue == Color(IntV(0), IntV(0), IntV(31))

\* the calls made on the Frame; a color "held" in a selection stands for
\* the color the Frame holds at that position when the call is made
FrameCalls ==
    {[name |-> "setColor", args |-> <<2, 2>>, color |-> Red],
     [name |-> "setColor", args |-> <<2, 2>>, color |-> Black],
     [name |-> "setColor", args |-> <<63, 31>>, color |-> Blue],
     [name |-> "makeRect", args |-> <<1, 1, 4, 4>>, color |-> Red],
     [name |-> "makeRect", args |-> <<2, 2, 3, 3>>, color |-> Black],
     [name |-> "makeLine", args |-> <<0, 0, 3, 2>>, color |-> Blue],
     [name |-> "makeLine", args |-> <<62, 33, 65, 30>>, color |-> Red],
     [name |-> "fill", args |-> <<2, 2>>, color |-> Blue],
     [name |-> "fill", args |-> <<2, 2>>, color |-> Red],
     [name |-> "fill", args |-> <<0, 0>>, color |-> Blue],
     [name |-> "fill", args |-> <<64, 0>>, color |-> Red],
     [name |-> "moveSelection", args |-> <<0, 0>>, color |-> <<(<<2, 2>>), (<<3, 2>>)>>],
     [name |-> "moveSelection", args |-> <<0, 0>>, color |-> <<(<<2, 2>>), (<<63, 31>>), (<<2, 2>>)>>],
     [name |-> "moveSelection", args |-> <<1, 0>>, color |-> <<(<<2, 2>>), (<<3, 2>>)>>],
     [name |-> "moveSelection", args |-> <<1, 1>>, color |-> <<(<<63, 31>>)>>]}

FrameInit ==
    /\ frames = <<[NewFrame EXCEPT !.on_change = TRUE]>>
    /\ ctl = [m |-> "frame", n |-> 0, call |-> [name |-> "Frame", args |-> <<>>, color |-> Black],
              val |-> NoneV, exc |-> NoExc]
    /\ program = <<>>
    /\ envs = <<>>
    /\ lists = <<>>
    /\ last_modified_frame = 0
    /\ statement_end_handler = FALSE
    /\ published = <<>>
    /\ sent = <<>>
    /\ trace = <<>>
    /\ nsid = 0
    /\ stack = <<>>

\* the call `call` returned val or raised exc
Called(call, r) ==
    /\ SetWorld(r.w)
    /\ ctl' = [m |-> "frame", n |-> ctl.n + 1, call |-> call, val |-> r.val, exc |-> r.exc]
    /\ UNCHANGED <<program, stack>>

\* the world a call starts in: the marks of the call before are dropped
Calling == [World EXCEPT !.trace = <<>>]

SetColor ==
    /\ ctl.m = "frame" /\ ctl.n < MaxOps
    /\ \E c \in FrameCalls :
          /\ c.name = "setColor"
          /\ Called(c, FrameSetColor(Calling, 1, IntV(c.args[1]), IntV(c.args[2]),
                                     c.color.v[1], c.color.v[2], c.color.v[3]))

GetPixel ==
    /\ ctl.m = "frame" /\ ctl.n < MaxOps
    /\ \E c \in FrameCalls :
          /\ c.name = "setColor"
          /\ Called([c EXCEPT !.name = "getPixel"],
                    FrameGetPixel(Calling, 1, IntV(c.args[1]), IntV(c.args[2])))

MakeRect ==
    /\ ctl.m = "frame" /\ ctl.n < MaxOps
    /\ \E c \in FrameCalls :
          /\ c.name = "makeRect"
          /\ Called(c, FrameMakeRect(Calling, 1, c.args[1], c.args[2], c.args[3], c.args[4],
                                     c.color.v))

MakeLine ==
    /\ ctl.m = "frame" /\ ctl.n < MaxOps
    /\ \E c \in FrameCalls :
          /\ c.name = "makeLine"
          /\ Called(c, FrameMakeLine(Calling, 1, c.args[1], c.args[2], c.args[3], c.args[4],
                                     c.color.v))

Fill ==
    /\ ctl.m = "frame" /\ ctl.n < MaxOps
    /\ \E c \in FrameCalls :
          /\ c.name = "fill"
          /\ InWindow(c.args[1], c.args[2]) =>
                Cardinality(Region(frames[1].display, {<<c.args[1], c.args[2]>>},
                                   frames[1].display[c.args[2] + 1][c.args[1] + 1])) <= MaxFill
          /\ Called(c, FrameFill(Calling, 1, c.args[1], c.args[2], c.color.v))

MoveSelection ==
    /\ ctl.m = "frame" /\ ctl.n < MaxOps
    /\ \E c \in FrameCalls :
       \E held \in BOOLEAN :
          /\ c.name = "moveSelection"
          /\ LET pixels == [i \in 1..Len(c.color) |->
                               <<c.color[i],
                                 IF held
                                 THEN frames[1].display[c.color[i][2] + 1][c.color[i][1] + 1]
                                 ELSE Red>>]
             IN  Called([c EXCEPT !.color = pixels],
                        FrameMoveSelection(Calling, 1, pixels, c.args[1], c.args[2]))

FrameNext ==
    \/ SetColor
    \/ GetPixel
    \/ MakeRect
    \/ MakeLine
    \/ Fill
    \/ MoveSelection

FrameSpec == FrameInit /\ [][FrameNext]_vars

\* ---------------------------------------------------------------------
\* Frame.makeLine, one step per iteration of its loop (engine.py 61-85)
\* ---------------------------------------------------------------------
\* the endpoints of the lines drawn: inside the window, on its corners,
\* and outside it on every side
LineXs == {-2, 0, 3, 65}
LineYs == {-1, 0, 2, 33}

\* one Frame, and makeLine called with endpoints still to be cast
LineInit ==
    /\ \E x1 \in LineXs, x2 \in LineXs, y1 \in LineYs, y2 \in LineYs :
          ctl = [m |-> "makeLine", x1 |-> x1, y1 |-> y1, x2 |-> x2, y2 |-> y2,
                 from |-> <<x1, y1>>, dx |-> 0, dy |-> 0, sx |-> 0, sy |-> 0, err |-> 0,
                 n |-> 0, exc |-> NoExc]
    /\ frames = <<[NewFrame EXCEPT !.on_change = TRUE]>>
    /\ program = <<>>
    /\ envs = <<>>
    /\ lists = <<>>
    /\ last_modified_frame = 0
    /\ statement_end_handler = FALSE
    /\ published = <<>>
    /\ sent = <<>>
    /\ trace = <<>>
    /\ nsid = 0
    /\ stack = <<>>

\* lines 63-72: dx, dy, sx, sy and err are set before the loop
LineEnter ==
    /\ ctl.m = "makeLine"
    /\ ctl' = [ctl EXCEPT !.m = "while",
                          !.dx = Abs(ctl.x2 - ctl.x1),
                          !.dy = -Abs(ctl.y2 - ctl.y1),
                          !.sx = IF ctl.x1 < ctl.x2 THEN 1 ELSE -1,
                          !.sy = IF ctl.y1 < ctl.y2 THEN 1 ELSE -1,
                          !.err = Abs(ctl.x2 - ctl.x1) - Abs(ctl.y2 - ctl.y1)]
    /\ UNCHANGED <<program, envs, frames, lists, last_modified_frame, statement_end_handler,
                   published, sent, trace, nsid, stack>>

\* an iteration that calls setColor without looking at the window
LineIterateUnclipped ==
    /\ ctl.m = "while"
    /\ LET r == FrameSetColor(World, 1, IntV(ctl.x1), IntV(ctl.y1), Red.v[1], Red.v[2], Red.v[3])
           e2 == 2 * ctl.err
           stepx == e2 >= ctl.dy
           stepy == e2 <= ctl.dx
       IN  /\ SetWorld(r.w)
           /\ ctl' = IF Failed(r) THEN [ctl EXCEPT !.m = "raised", !.exc = r.exc]
                     ELSE IF ctl.x1 = ctl.x2 /\ ctl.y1 = ctl.y2 THEN [ctl EXCEPT !.m = "drawn"]
                     ELSE [ctl EXCEPT !.x1 = IF stepx THEN @ + ctl.sx ELSE @,
                                      !.y1 = IF stepy THEN @ + ctl.sy ELSE @,
                                      !.err = @ + (IF stepx THEN ctl.dy ELSE 0)
                                                + (IF stepy THEN ctl.dx ELSE 0),
                                      !.n = @ + 1]
    /\ UNCHANGED <<program, stack>>

\* lines 74-85: one iteration; n counts the iterations that moved on
LineIterate ==
    /\ ctl.m = "while"
    /\ LET r == IF InWindow(ctl.x1, ctl.y1)
                THEN FrameSetColor(World, 1, IntV(ctl.x1), IntV(ctl.y1),
                                   Red.v[1], Red.v[2], Red.v[3])
                ELSE Ok(World, NoneV)
           e2 == 2 * ctl.err
           stepx == e2 >= ctl.dy
           stepy == e2 <= ctl.dx
       IN  /\ SetWorld(r.w)
           /\ ctl' = IF Failed(r) THEN [ctl EXCEPT !.m = "raised", !.exc = r.exc]
                     ELSE IF ctl.x1 = ctl.x2 /\ ctl.y1 = ctl.y2 THEN [ctl EXCEPT !.m = "drawn"]
                     ELSE [ctl EXCEPT !.x1 = IF stepx THEN @ + ctl.sx ELSE @,
                                      !.y1 = IF stepy THEN @ + ctl.sy ELSE @,
                                      !.err = @ + (IF stepx THEN ctl.dy ELSE 0)
                                                + (IF stepy THEN ctl.dx ELSE 0),
                                      !.n = @ + 1]
    /\ UNCHANGED <<program, stack>>

LineNext ==
    \/ LineEnter
    \/ LineIterate

LineSpec == LineInit /\ [][LineNext]_vars

\* ---------------------------------------------------------------------
\* Frame.fill, one iteration of its loop at a time (engine.py 138-165),
\* next to makeLine's loop
\* ---------------------------------------------------------------------
\* the Frames fill is called on: blank, or with a vertical bar at x = 60
FillDisplays ==
    {BlankDisplay,
     [y \in 1..Height |-> [x \in 1..Width |-> IF x = 61 THEN Blue ELSE Black]]}

\* the seeds: corners, a pixel of the bar, positions outside the window
FillSeeds == {<<0, 0>>, <<63, 31>>, <<60, 5>>, <<64, 0>>, <<-1, 5>>, <<3, 32>>}

FillInit ==
    /\ \E display \in FillDisplays, seed \in FillSeeds, color \in {Red, Black} :
          /\ display = BlankDisplay => seed \in {<<0, 0>>, <<64, 0>>, <<-1, 5>>, <<3, 32>>}
          /\ frames = <<[NewFrame EXCEPT !.display = display, !.on_change = TRUE]>>
          /\ ctl = [m |-> "fill", startx |-> seed[1], starty |-> seed[2], target |-> NoneV,
                    replacement |-> color, stack |-> <<>>, visited |-> {}, pops |-> 0,
                    processed |-> 0, written |-> 0]
    /\ program = <<>>
    /\ envs = <<>>
    /\ lists = <<>>
    /\ last_modified_frame = 0
    /\ statement_end_handler = FALSE
    /\ published = <<>>
    /\ sent = <<>>
    /\ trace = <<>>
    /\ nsid = 0
    /\ stack = <<>>

\* lines 139-149: the early returns, then target, stack and visited
FillEnter ==
    /\ ctl.m = "fill"
    /\ ctl' = IF ~InWindow(ctl.startx, ctl.starty) THEN [ctl EXCEPT !.m = "filled"]
              ELSE LET target == frames[1].display[ctl.starty + 1][ctl.startx + 1]
                   IN  IF PyEq(World, target, ctl.replacement)
                       THEN [ctl EXCEPT !.m = "filled", !.target = target]
                       ELSE [ctl EXCEPT !.m = "stack", !.target = target,
                                        !.stack = <<(<<ctl.startx, ctl.starty>>)>>]
    /\ UNCHANGED <<program, envs, frames, lists, last_modified_frame, statement_end_handler,
                   published, sent, trace, nsid, stack>>

\* an iteration that does not look at visited before it goes on
FillIterationRevisits(display, c) ==
    LET p == c.stack[Len(c.stack)]
        rest == SubSeq(c.stack, 1, Len(c.stack) - 1)
        x == p[1]
        y == p[2]
        pushed == (IF x > 0 THEN <<(<<x - 1, y>>)>> ELSE <<>>)
                  \o (IF x < Width - 1 THEN <<(<<x + 1, y>>)>> ELSE <<>>)
                  \o (IF y > 0 THEN <<(<<x, y - 1>>)>> ELSE <<>>)
                  \o (IF y < Height - 1 THEN <<(<<x, y + 1>>)>> ELSE <<>>)
        popped == [c EXCEPT !.stack = rest, !.pops = @ + 1]
        added == [popped EXCEPT !.visited = @ \cup {p}, !.processed = @ + 1]
    IN  IF ~PyEq(World, display[y + 1][x + 1], c.target)
        THEN [display |-> display, c |-> added]
        ELSE [display |-> [display EXCEPT ![y + 1][x + 1] = c.replacement],
              c |-> [added EXCEPT !.stack = rest \o pushed, !.written = @ + 1]]

\* lines 151-165, one iteration of `while stack`: pops counts the
\* iterations, processed those that get past the visited test, written
\* those that write the pixel
FillIteration(display, c) ==
    LET p == c.stack[Len(c.stack)]
        rest == SubSeq(c.stack, 1, Len(c.stack) - 1)
        x == p[1]
        y == p[2]
        pushed == (IF x > 0 THEN <<(<<x - 1, y>>)>> ELSE <<>>)
                  \o (IF x < Width - 1 THEN <<(<<x + 1, y>>)>> ELSE <<>>)
                  \o (IF y > 0 THEN <<(<<x, y - 1>>)>> ELSE <<>>)
                  \o (IF y < Height - 1 THEN <<(<<x, y + 1>>)>> ELSE <<>>)
        popped == [c EXCEPT !.stack = rest, !.pops = @ + 1]
        added == [popped EXCEPT !.visited = @ \cup {p}, !.processed = @ + 1]
    IN  IF p \in c.visited THEN [display |-> display, c |-> popped]
        ELSE IF ~PyEq(World, display[y + 1][x + 1], c.target)
        THEN [display |-> display, c |-> added]
        ELSE [display |-> [display EXCEPT ![y + 1][x + 1] = c.replacement],
              c |-> [added EXCEPT !.stack = rest \o pushed, !.written = @ + 1]]

\* the loop runs an iteration; it ends when the stack is empty
FillIterate ==
    /\ ctl.m = "stack"
    /\ LET iterated(r) ==
               /\ frames' = [frames EXCEPT ![1].display = r.display]
               /\ ctl' = IF r.c.stack = <<>> THEN [r.c EXCEPT !.m = "filled"] ELSE r.c
       IN  iterated(FillIteration(frames[1].display, ctl))
    /\ UNCHANGED <<program, envs, lists, last_modified_frame, statement_end_handler,
                   published, sent, trace, nsid, stack>>

RasterInit == LineInit \/ FillInit

RasterNext ==
    \/ LineEnter
    \/ LineIterate
    \/ FillEnter
    \/ FillIterate

RasterSpec == RasterInit /\ [][RasterNext]_vars

\* ---------------------------------------------------------------------
\* frame_to_rgb565_bytes (engine.py 216-233)
\* ---------------------------------------------------------------------
\* ((r & 0x1F) << 11) | ((g & 0x3F) << 5) | (b & 0x1F)
Rgb565(r, g, b) == BitOr(BitOr(BitAnd(r, 31) * 2048, BitAnd(g, 63) * 32), BitAnd(b, 31))

\* frame_to_rgb565_bytes with the two bytes of a pixel in the other order
BytesBigEndian(frame) ==
    IF Len(frame.display) # Height THEN [val |-> <<>>, exc |-> PyError("ValueError")]
    ELSE IF \E y \in 1..Height : Len(frame.display[y]) # Width
    THEN [val |-> <<>>, exc |-> PyError("ValueError")]
    ELSE LET value == [y \in 1..Height |-> [x \in 1..Width |->
                          Rgb565(frame.display[y][x].v[1].v, frame.display[y][x].v[2].v,
                                 frame.display[y][x].v[3].v)]]
         IN  [val |-> [idx \in 1..(Width * Height * 2) |->
                          LET v == value[((idx - 1) \div (2 * Width)) + 1]
                                        [(((idx - 1) % (2 * Width)) \div 2) + 1]
                          IN  IF idx % 2 = 1 THEN BitAnd(v \div 256, 255) ELSE BitAnd(v, 255)],
              exc |-> NoExc]

\* the bytes returned, or the ValueError raised: data[idx] = value & 0xFF
\* and data[idx + 1] = (value >> 8) & 0xFF for idx = 2 * (64 * y + x)
frame_to_rgb565_bytes(frame) ==
    IF Len(frame.display) # Height THEN [val |-> <<>>, exc |-> PyError("ValueError")]
    ELSE IF \E y \in 1..Height : Len(frame.display[y]) # Width
    THEN [val |-> <<>>, exc |-> PyError("ValueError")]
    ELSE LET value == [y \in 1..Height |-> [x \in 1..Width |->
                          Rgb565(frame.display[y][x].v[1].v, frame.display[y][x].v[2].v,
                                 frame.display[y][x].v[3].v)]]
         IN  [val |-> [idx \in 1..(Width * Height * 2) |->
                          LET v == value[((idx - 1) \div (2 * Width)) + 1]
                                        [(((idx - 1) % (2 * Width)) \div 2) + 1]
                          IN  IF idx % 2 = 1 THEN BitAnd(v, 255) ELSE BitAnd(v \div 256, 255)],
              exc |-> NoExc]

\* the channel values of the pixels encoded: the ends of each range, and
\* values with mixed bits
Reds == {0, 21, 31}
Greens == {0, 42, 63}
Blues == {0, 10, 31}
\* where the pixel is put: the corners of the window and the start of the
\* second row
Spots == {<<0, 0>>, <<63, 0>>, <<0, 1>>, <<63, 31>>}

\* a Frame that is white (31, 63, 31) except for one pixel, or the Frame
\* of one row that "short.qgc" gives
BytesInit ==
    /\ \/ \E r \in Reds, g \in Greens, b \in Blues, p \in Spots :
             /\ frames = <<[display |-> [y \in 1..Height |-> [x \in 1..Width |->
                                            IF <<x - 1, y - 1>> = p
                                            THEN Color(IntV(r), IntV(g), IntV(b))
                                            ELSE Color(IntV(31), IntV(63), IntV(31))]],
                            on_change |-> FALSE]>>
             /\ ctl = [m |-> "frame565", at |-> p, val |-> <<>>, exc |-> NoExc]
       \/ /\ frames = <<[display |-> QGCFiles["short.qgc"].pixels, on_change |-> FALSE]>>
          /\ ctl = [m |-> "frame565", at |-> <<0, 0>>, val |-> <<>>, exc |-> NoExc]
    /\ program = <<>>
    /\ envs = <<>>
    /\ lists = <<>>
    /\ last_modified_frame = 0
    /\ statement_end_handler = FALSE
    /\ published = <<>>
    /\ sent = <<>>
    /\ trace = <<>>
    /\ nsid = 0
    /\ stack = <<>>

FrameToBytes ==
    /\ ctl.m = "frame565"
    /\ LET returned(r) == ctl' = [ctl EXCEPT !.m = "bytes", !.val = r.val, !.exc = r.exc]
       IN  returned(frame_to_rgb565_bytes(frames[1]))
    /\ UNCHANGED <<program, envs, frames, lists, last_modified_frame, statement_end_handler,
                   published, sent, trace, nsid, stack>>

BytesNext == FrameToBytes

BytesSpec == BytesInit /\ [][BytesNext]_vars

\* ---------------------------------------------------------------------
\* The debugger driver of the code editor (codeeditor.py 1071-1193).  The
\* generator of run_source_steps is taken by what the driver sees of it:
\* the lines of the StepInfos it yields, in order, and how it ends.  The
\* statement of a StepInfo starts to execute when next() is called again
\* (interpreter.py 275-276), so `ran` counts the resumptions.
\* The driver is [iter, current, bps, mode, timer, controls] with
\* current = 0 for None; yielded, ran and seen record the run, and stop
\* the StepInfo at which a tick last stopped the timer (0: none).
\* ---------------------------------------------------------------------
_debug_steps_per_tick == 200

\* the StepInfo lines of the sources debugged: three simple statements, no
\* statement, a loop over the lines 2 and 3, and a run longer than one
\* tick of the timer
DebugSources ==
    {<<1, 2, 3>>, <<>>, <<1, 2, 3, 2, 3, 2, 4>>,
     [i \in 1..(_debug_steps_per_tick + 5) |-> IF i = _debug_steps_per_tick + 3 THEN 2 ELSE 1]}

\* _stop_debug_session
_stop_debug_session(d) ==
    [d EXCEPT !.timer = FALSE, !.iter = FALSE, !.current = 0, !.mode = "None",
              !.bps = {}, !.controls = FALSE]

\* _debug_advance: next() on the generator; d.ok is what it returns.  The
\* generator ends with StopIteration or with an exception of its last
\* statement; the driver stops the session either way.
_debug_advance(d) ==
    IF ~d.iter THEN [d EXCEPT !.ok = FALSE]
    ELSE IF d.yielded < Len(d.steps)
    THEN [d EXCEPT !.ok = TRUE, !.current = d.yielded + 1, !.yielded = @ + 1,
                   !.ran = d.yielded, !.seen = Append(@, d.steps[d.yielded + 1])]
    ELSE [_stop_debug_session(d) EXCEPT !.ok = FALSE, !.ran = d.yielded]

\* _prime_debug_iter
_prime_debug_iter(d) == IF d.current # 0 THEN [d EXCEPT !.ok = TRUE] ELSE _debug_advance(d)

\* _prepare_debug_session: the breakpoints are read off the editor and a
\* new generator is primed
_prepare_debug_session(d) ==
    _prime_debug_iter([_stop_debug_session(d) EXCEPT !.bps = d.editor, !.iter = TRUE,
                                                    !.yielded = 0, !.ran = 0,
                                                    !.seen = <<>>, !.stop = 0])

\* an iteration that advances before it looks at the breakpoints
TickAdvanceFirst(d) ==
    LET look(a) == IF a.ok /\ a.steps[a.current] \in a.bps
                   THEN [a EXCEPT !.timer = FALSE, !.controls = TRUE, !.stop = a.current]
                   ELSE a
    IN  IF ~d.ok \/ ~d.timer THEN d ELSE look(_debug_advance(d))

\* one iteration of the loop of _debug_continue_tick; once the handler
\* has returned (the timer was stopped, or _debug_advance gave False) the
\* iterations left do nothing
TickIteration(d) ==
    IF ~d.ok \/ ~d.timer THEN d
    ELSE IF d.current # 0 /\ d.steps[d.current] \in d.bps
    THEN [d EXCEPT !.timer = FALSE, !.controls = TRUE, !.stop = d.current]
    ELSE _debug_advance(d)

\* for _ in range(k): the k iterations, the first half and then the rest
RECURSIVE TickLoop(_, _)
TickLoop(d, k) ==
    IF k = 0 THEN d
    ELSE IF k = 1 THEN TickIteration(d)
    ELSE LET rest(half) == IF ~half.ok \/ ~half.timer THEN half
                           ELSE TickLoop(half, k - (k \div 2))
         IN  rest(TickLoop(d, k \div 2))

\* the editor holds a source and breakpoints; no session yet
DebugInit ==
    /\ \E steps \in DebugSources, bps \in SUBSET {1, 2, 3} :
          ctl = [m |-> "editor", steps |-> steps, editor |-> bps,
                 iter |-> FALSE, current |-> 0, bps |-> {}, mode |-> "None",
                 timer |-> FALSE, controls |-> FALSE, ok |-> FALSE,
                 yielded |-> 0, ran |-> 0, seen |-> <<>>, stop |-> 0, did |-> "init"]
    /\ frames = <<>>
    /\ program = <<>>
    /\ envs = <<>>
    /\ lists = <<>>
    /\ last_modified_frame = 0
    /\ statement_end_handler = FALSE
    /\ published = <<>>
    /\ sent = <<>>
    /\ trace = <<>>
    /\ nsid = 0
    /\ stack = <<>>

\* the handler `did` ran and left the driver as d
Handled(did, d) ==
    /\ ctl' = [d EXCEPT !.did = did]
    /\ UNCHANGED <<program, envs, frames, lists, last_modified_frame, statement_end_handler,
                   published, sent, trace, nsid, stack>>

\* _run_debugger, the Debug button: it can be pressed at any time
RunDebugger ==
    /\ ctl.m = "editor"
    /\ LET start(d) == IF ~d.ok THEN d
                       ELSE [d EXCEPT !.controls = FALSE, !.mode = "continue", !.timer = TRUE]
       IN  Handled("_run_debugger", start(_prepare_debug_session(ctl)))

\* _debug_tick, the timer's timeout, in the mode "continue"
DebugTick ==
    /\ ctl.m = "editor"
    /\ ctl.timer
    /\ ctl.mode = "continue"
    /\ LET loop(d) == IF ~d.ok THEN d ELSE TickLoop(d, _debug_steps_per_tick)
       IN  Handled("_debug_tick", loop(_prime_debug_iter(ctl)))

\* _debug_continue, the Continue button, which is there while the controls
\* are shown
DebugContinue ==
    /\ ctl.m = "editor"
    /\ ctl.controls
    /\ LET run(d) == IF ~d.ok THEN d ELSE [d EXCEPT !.mode = "continue", !.timer = TRUE]
           hidden == [ctl EXCEPT !.controls = FALSE, !.ok = TRUE]
       IN  IF ~ctl.iter THEN Handled("_debug_continue", ctl)
           ELSE IF ctl.current # 0 /\ ctl.steps[ctl.current] \in ctl.bps
           THEN Handled("_debug_continue", run(_debug_advance(hidden)))
           ELSE Handled("_debug_continue", run(hidden))

\* _debug_step, the Step button
DebugStep ==
    /\ ctl.m = "editor"
    /\ ctl.controls
    /\ LET show(d) == IF ~d.ok THEN d ELSE [d EXCEPT !.controls = TRUE]
           advance(d) == IF ~d.ok THEN d ELSE show(_debug_advance(d))
       IN  IF ~ctl.iter THEN Handled("_debug_step", ctl)
           ELSE Handled("_debug_step", advance(_prime_debug_iter(ctl)))

DebugNext ==
    \/ RunDebugger
    \/ DebugTick
    \/ DebugContinue
    \/ DebugStep

DebugSpec == DebugInit /\ [][DebugNext]_vars

\* ---------------------------------------------------------------------
\* The file publisher (sendfile.py 35-76) and a reader of the destination.
\* The file system is dir (the destination and each sender's temp sibling,
\* holding an inode or 0) and inodes (each the frame it holds bytes of and
\* how many); a sender is [pc, frame, size, inode], the reader [pc, inode,
\* got].  Each sender is a process of its own (os.getpid() differs), so
\* the temp siblings are distinct names.
\* ---------------------------------------------------------------------
FRAME_BYTE_SIZE == 4096

Senders == {1, 2}

\* the number of bytes a file can be seen to hold while it is written
Partial == {0, 1, 2048, 4095}

\* the destination holds an earlier frame (frame 0) or does not exist; the
\* first sender has a frame of 4096 bytes, the second one of 4096 or 4095
SendInit ==
    /\ \E existed \in BOOLEAN, size \in {FRAME_BYTE_SIZE, FRAME_BYTE_SIZE - 1} :
          ctl = [m |-> "send",
                 dir |-> [dest |-> IF existed THEN 1 ELSE 0, tmp |-> <<0, 0>>],
                 inodes |-> <<[frame |-> 0, len |-> FRAME_BYTE_SIZE]>>,
                 sender |-> <<[pc |-> "send_frame_bytes", frame |-> 1,
                               size |-> FRAME_BYTE_SIZE, inode |-> 0],
                              [pc |-> "send_frame_bytes", frame |-> 2,
                               size |-> size, inode |-> 0]>>,
                 reader |-> [pc |-> "idle", inode |-> 0, got |-> [frame |-> -1, len |-> 0]],
                 replaced |-> {0}]
    /\ frames = <<>>
    /\ program = <<>>
    /\ envs = <<>>
    /\ lists = <<>>
    /\ last_modified_frame = 0
    /\ statement_end_handler = FALSE
    /\ published = <<>>
    /\ sent = <<>>
    /\ trace = <<>>
    /\ nsid = 0
    /\ stack = <<>>

SendStep(c) ==
    /\ ctl' = c
    /\ UNCHANGED <<program, envs, frames, lists, last_modified_frame, statement_end_handler,
                   published, sent, trace, nsid, stack>>

\* send_frame_bytes: _validate_frame_size, then _atomic_write_bytes
SendValidate ==
    /\ ctl.m = "send"
    /\ \E s \in Senders :
          /\ ctl.sender[s].pc = "send_frame_bytes"
          /\ SendStep([ctl EXCEPT !.sender[s].pc =
                          IF ctl.sender[s].size # FRAME_BYTE_SIZE THEN "ValueError" ELSE "open"])

\* a sender that opens the destination itself for writing, truncating it
\* (or creating it)
SendOpenDest ==
    /\ ctl.m = "send"
    /\ \E s \in Senders :
          /\ ctl.sender[s].pc = "open"
          /\ IF ctl.dir.dest # 0
             THEN SendStep([ctl EXCEPT !.inodes[ctl.dir.dest].len = 0,
                                       !.inodes[ctl.dir.dest].frame = ctl.sender[s].frame,
                                       !.sender[s].inode = ctl.dir.dest,
                                       !.sender[s].pc = "write"])
             ELSE SendStep([ctl EXCEPT !.inodes = Append(@, [frame |-> ctl.sender[s].frame,
                                                             len |-> 0]),
                                       !.dir.dest = Len(ctl.inodes) + 1,
                                       !.sender[s].inode = Len(ctl.inodes) + 1,
                                       !.sender[s].pc = "write"])

\* tmp_path.open("wb"): the temp sibling is created empty
SendOpenTemp ==
    /\ ctl.m = "send"
    /\ \E s \in Senders :
          /\ ctl.sender[s].pc = "open"
          /\ SendStep([ctl EXCEPT !.inodes = Append(@, [frame |-> ctl.sender[s].frame, len |-> 0]),
                                  !.dir.tmp[s] = Len(ctl.inodes) + 1,
                                  !.sender[s].inode = Len(ctl.inodes) + 1,
                                  !.sender[s].pc = "write"])

\* handle.write(data): some of the bytes, or none, reach the file
SendWrite ==
    /\ ctl.m = "send"
    /\ \E s \in Senders, n \in Partial :
          /\ ctl.sender[s].pc = "write"
          /\ SendStep([ctl EXCEPT !.inodes[ctl.sender[s].inode].len = n,
                                  !.sender[s].pc = "flush"])

\* handle.flush(): the rest reaches the file
SendFlush ==
    /\ ctl.m = "send"
    /\ \E s \in Senders :
          /\ ctl.sender[s].pc = "flush"
          /\ SendStep([ctl EXCEPT !.inodes[ctl.sender[s].inode].len = ctl.sender[s].size,
                                  !.sender[s].pc = "fsync"])

\* os.fsync (an OSError is passed over) and the end of the with block
SendSync ==
    /\ ctl.m = "send"
    /\ \E s \in Senders :
          /\ ctl.sender[s].pc = "fsync"
          /\ SendStep([ctl EXCEPT !.sender[s].pc = "replace"])

\* write or flush raises OSError: the temp sibling stays as it is
SendWriteError ==
    /\ ctl.m = "send"
    /\ \E s \in Senders :
          /\ ctl.sender[s].pc \in {"write", "flush"}
          /\ SendStep([ctl EXCEPT !.sender[s].pc = "OSError"])

\* os.replace(tmp_path, path)
SendReplace ==
    /\ ctl.m = "send"
    /\ \E s \in Senders :
          /\ ctl.sender[s].pc = "replace"
          /\ SendStep([ctl EXCEPT !.dir.dest = ctl.dir.tmp[s],
                                  !.dir.tmp[s] = 0,
                                  !.replaced = @ \cup {ctl.sender[s].frame},
                                  !.sender[s].pc = "utime"])

\* os.utime(path, None)
SendUtime ==
    /\ ctl.m = "send"
    /\ \E s \in Senders :
          /\ ctl.sender[s].pc = "utime"
          /\ SendStep([ctl EXCEPT !.sender[s].pc = "done"])

\* a reader opens the destination path
ReaderOpen ==
    /\ ctl.m = "send"
    /\ ctl.reader.pc = "idle"
    /\ ctl.dir.dest # 0
    /\ SendStep([ctl EXCEPT !.reader.pc = "opened", !.reader.inode = ctl.dir.dest])

\* and reads the file it opened to its end
ReaderRead ==
    /\ ctl.m = "send"
    /\ ctl.reader.pc = "opened"
    /\ SendStep([ctl EXCEPT !.reader.pc = "idle", !.reader.got = ctl.inodes[ctl.reader.inode]])

SendNext ==
    \/ SendValidate
    \/ SendOpenTemp
    \/ SendWrite
    \/ SendFlush
    \/ SendSync
    \/ SendWriteError
    \/ SendReplace
    \/ SendUtime
    \/ ReaderOpen
    \/ ReaderRead

SendSpec == SendInit /\ [][SendNext]_vars

\* ---------------------------------------------------------------------
\* Sanity of the model
\* ---------------------------------------------------------------------
\* no program of the model reaches semantics the model does not compute
NothingUnmodelled ==
    /\ ctl.m \in {"exc", "failed", "ran"} => ctl.exc.type # "Unmodelled"
    /\ \A e \in 1..Len(envs) : \A n \in DOMAIN envs[e].values : envs[e].values[n].t # "long"

\* ---------------------------------------------------------------------
\* Reading the trace
\* ---------------------------------------------------------------------
\* a stepping run (run_source_steps) is under way or over
Stepping == ctl.m \notin {"new", "ran"}
\* the positions of the marks `e` of the statement sid
Positions(e, sid) == {i \in 1..Len(trace) : trace[i].e = e /\ trace[i].sid = sid}
\* the statement ids whose StepInfo was yielded, by statement kind
Stepped(kinds) == {trace[i].sid : i \in {j \in 1..Len(trace) : trace[j].e = "step" /\ trace[j].k \in kinds}}
\* the positions where a simple statement returned
SimpleDone == {d \in 1..Len(trace) : trace[d].e = "done" /\ trace[d].sid \in Stepped(SimpleKinds)}
\* where the statement sid began to execute
ExecPos(sid) == CHOOSE p \in Positions("exec", sid) : TRUE
\* trace[p] is the mark `e` of the statement sid
IsMark(p, e, sid) == p \in 1..Len(trace) /\ trace[p].e = e /\ trace[p].sid = sid
\* the positions inside the execution of a statement nested in (from, to)
Nested(from, to) ==
    {j \in (from + 1)..(to - 1) :
        \E a \in (from + 1)..(j - 1), b \in (j + 1)..(to - 1) :
            trace[a].e = "exec" /\ trace[b].e = "done" /\ trace[a].sid = trace[b].sid}

\* ---------------------------------------------------------------------
\* C1: the step that yields the StepInfo of a simple statement changes no
\* environment, no Frame, no list and no handler call record, appends
\* only the StepInfo, and the statement has not begun to execute
\* ---------------------------------------------------------------------
C1_StepInfoBeforeEffects ==
    [][(ctl'.m = "yield" /\ ctl'.k \in SimpleKinds) =>
          /\ envs' = envs /\ frames' = frames /\ lists' = lists
          /\ published' = published /\ sent' = sent
          /\ Len(trace') = Len(trace) + 1
          /\ IsMark(Len(trace), "step", ctl.sid)'
          /\ Positions("exec", ctl.sid)' = {}]_vars

\* the StepInfo of a pixel assignment is in the driver's hands and the
\* Frame is still blank
C1_Witness ==
    /\ ctl.m = "yield" /\ ctl.k = "PixelAssign"
    /\ frames # <<>> /\ frames[1].display = BlankDisplay

\* ---------------------------------------------------------------------
\* C2: with a handler installed, a simple statement that returned and
\* changed a pixel itself (not through a statement nested in it) is
\* followed by the handler call with the Frame changed last
\* ---------------------------------------------------------------------
C2_CallbackAfterPixelChange ==
    (Stepping /\ statement_end_handler) =>
        \A d \in SimpleDone :
            LET from == ExecPos(trace[d].sid)
                own == {j \in (from + 1)..(d - 1) : trace[j].e = "change"} \ Nested(from, d)
                last == CHOOSE j \in own : \A j2 \in own : j2 <= j
            IN  own # {} => trace[d - 1].e = "callback" /\ trace[d - 1].arg = trace[last].arg

\* ---------------------------------------------------------------------
\* C3: a handler call is at once followed by the return of a simple
\* statement (so it comes after the statement's effects and before the
\* next StepInfo), and every StepInfo yielded before it belongs to a
\* statement that began to execute before it
\* ---------------------------------------------------------------------
C3_CallbackSynchronous ==
    Stepping =>
        \A i \in 1..Len(trace) :
            trace[i].e = "callback" =>
                /\ (i + 1) \in SimpleDone
                /\ \A j \in 1..(i - 1) :
                      trace[j].e = "step" =>
                          \E p \in (j + 1)..(i - 1) : IsMark(p, "exec", trace[j].sid)

\* the handler was called and a later statement yielded its StepInfo
C3_Witness ==
    \E i \in 1..Len(trace), j \in 1..Len(trace) :
        i < j /\ trace[i].e = "callback" /\ trace[j].e = "step"

\* ---------------------------------------------------------------------
\* C4: a simple statement whose return is preceded by a handler call had
\* a Frame fire its on-change callback while it was executing
\* ---------------------------------------------------------------------
C4_NoChangeNoCallback ==
    Stepping =>
        \A d \in SimpleDone :
            trace[d - 1].e = "callback" =>
                \E j \in (ExecPos(trace[d].sid) + 1)..(d - 1) : trace[j].e = "notify"

\* a Frame fired on-change (in a condition or an earlier statement), and
\* the next simple statement returned without firing and without a call
C4_Witness ==
    /\ statement_end_handler
    /\ \E d \in SimpleDone :
          /\ \A k \in ExecPos(trace[d].sid)..d : trace[k].e \notin {"notify", "callback"}
          /\ \E j \in 1..ExecPos(trace[d].sid) :
                /\ trace[j].e = "notify"
                /\ \A k \in (j + 1)..d : trace[k].e # "callback"

\* ---------------------------------------------------------------------
\* C5: every statement that begins to execute during a stepping run has
\* just yielded its own StepInfo
\* ---------------------------------------------------------------------
C5_EveryStatementSteps ==
    Stepping =>
        \A p \in 1..Len(trace) :
            trace[p].e = "exec" => IsMark(p - 1, "step", trace[p].sid)

\* the handler is installed and Fill recolored pixels in a statement that
\* returned without a handler call
C2_FillWitness ==
    /\ statement_end_handler
    /\ \E d \in SimpleDone :
          /\ trace[d - 1].e = "change"
          /\ \A j \in ExecPos(trace[d].sid)..d : trace[j].e \notin {"notify", "callback"}

\* ---------------------------------------------------------------------
\* C6: each StepInfo of a While is at once followed by an evaluation of
\* its condition and each evaluation follows a StepInfo; once the
\* condition was false after n runs of the body there are n + 1 StepInfos
\* of the While, all of them before that
\* ---------------------------------------------------------------------
C6_WhileSteps ==
    Stepping =>
        \A sid \in Stepped({"WhileStmt"}) :
            LET steps == Positions("step", sid)
                exit == Positions("exit", sid)
            IN  /\ \A j \in steps : j < Len(trace) => IsMark(j + 1, "exec", sid)
                /\ \A p \in Positions("exec", sid) : IsMark(p - 1, "step", sid)
                /\ Cardinality(exit) <= 1
                /\ \A x \in exit :
                      /\ Cardinality(steps) = Cardinality(Positions("iter", sid)) + 1
                      /\ \A j \in steps : j < x

\* a While left after its body ran MaxIter times
C6_Witness ==
    \E sid \in Stepped({"WhileStmt"}) :
        /\ Positions("exit", sid) # {}
        /\ Cardinality(Positions("iter", sid)) = MaxIter

\* ---------------------------------------------------------------------
\* C7: a For evaluates its iterable once, before any of its StepInfos;
\* each StepInfo is at once followed by the binding of the loop variable
\* and each binding follows a StepInfo; the StepInfos of the body come
\* after as many StepInfos of the For as bindings; there are never more
\* StepInfos than list items and exactly as many once the For returned
\* ---------------------------------------------------------------------
C7_ForSteps ==
    Stepping =>
        \A sid \in {trace[i].sid : i \in {j \in 1..Len(trace) : trace[j].e = "iterable"}} :
            LET steps == Positions("step", sid)
                binds == Positions("exec", sid)
                list == Positions("list", sid)
                body == {b \in 1..Len(trace) : trace[b].e = "step" /\ trace[b].owner = sid}
            IN  /\ Cardinality(Positions("iterable", sid)) = 1
                /\ Cardinality(list) <= 1
                /\ \A j \in steps : \E l \in list : l < j /\ Cardinality(steps) <= trace[l].arg
                /\ \A j \in steps : j < Len(trace) => IsMark(j + 1, "exec", sid)
                /\ \A p \in binds : IsMark(p - 1, "step", sid)
                /\ \A b \in body :
                      /\ \E j \in steps : j < b
                      /\ Cardinality({j \in steps : j < b}) = Cardinality({p \in binds : p < b})
                /\ \A d \in Positions("done", sid) :
                      /\ \A l \in list : Cardinality(steps) = trace[l].arg
                      /\ \A j \in steps : j < d

\* a For over MaxItems items returned
C7_Witness ==
    \E d \in 1..Len(trace) :
        /\ trace[d].e = "done"
        /\ \E l \in Positions("list", trace[d].sid) : trace[l].arg = MaxItems
        /\ Cardinality(Positions("step", trace[d].sid)) = MaxItems

\* a For over the empty list returned
C7_EmptyWitness ==
    \E d \in 1..Len(trace) :
        /\ trace[d].e = "done"
        /\ \E l \in Positions("list", trace[d].sid) : trace[l].arg = 0

\* ---------------------------------------------------------------------
\* C8: an If yields one StepInfo, at once followed by the evaluation of
\* its condition; every StepInfo of a statement of its branches comes
\* after the condition's value and belongs to the then branch when the
\* value is truthy, to the else branch when it is not
\* ---------------------------------------------------------------------
C8_IfSteps ==
    Stepping =>
        \A sid \in Stepped({"IfStmt"}) :
            LET steps == Positions("step", sid)
                cond == Positions("cond", sid)
            IN  /\ Cardinality(steps) = 1
                /\ \A j \in steps : j < Len(trace) => IsMark(j + 1, "exec", sid)
                /\ \A p \in Positions("exec", sid) : IsMark(p - 1, "step", sid)
                /\ Cardinality(cond) <= 1
                /\ \A b \in 1..Len(trace) :
                      (trace[b].e = "step" /\ trace[b].owner = sid) =>
                          \E c \in cond :
                              /\ c < b
                              /\ trace[b].which = IF trace[c].arg = 1 THEN "then" ELSE "else"

\* an If whose condition was falsy ran a statement of its else branch
C8_Witness ==
    \E b \in 1..Len(trace) :
        /\ trace[b].e = "step" /\ trace[b].which = "else"
        /\ \E c \in Positions("cond", trace[b].owner) : trace[c].arg = 0
        /\ Positions("done", trace[b].owner) # {}

\* ---------------------------------------------------------------------
\* C9: when the step sequence is drained, the environments, the Frames,
\* the lists, the publish and send handler calls and the error are those
\* execute_program leaves on a fresh interpreter
\* ---------------------------------------------------------------------
C9_StepsMatchEager ==
    ctl.m \in {"done", "failed"} =>
        LET r == execute_program(NewInterpreter(FALSE), program)
        IN  /\ envs = r.w.envs
            /\ frames = r.w.frames
            /\ lists = r.w.lists
            /\ published = r.w.published
            /\ sent = r.w.sent
            /\ (ctl.m = "failed") = Failed(r)
            /\ ctl.m = "failed" => ctl.exc = r.exc

\* a drained run that called functions, painted and published
C9_Witness ==
    /\ ctl.m = "done"
    /\ Len(envs) > 1 /\ published # <<>>
    /\ published[1].display # BlankDisplay

\* a drained run that ended with an error after painting
C9_FailedWitness ==
    /\ ctl.m = "failed"
    /\ frames # <<>> /\ frames[1].display # BlankDisplay

\* ---------------------------------------------------------------------
\* C11: a return statement inside a function call raises its signal after
\* its StepInfo and (when a Frame is pending) the handler call, carrying
\* the value of its expression (None without one); the signal then leaves
\* one generator after the other, changing nothing and yielding nothing,
\* until the nearest call, which returns that value to the expression
\* that called; a body that ends without return makes the call return
\* None
\* ---------------------------------------------------------------------
C11_ReturnEndsCall ==
    [][LET top == Top(stack)
           top1 == Top(stack')
           signal == ctl.m = "exc" /\ ctl.exc.type = "ReturnSignal"
           signal1 == ctl'.m = "exc" /\ ctl'.exc.type = "ReturnSignal"
           InCall(st) == \E i \in 1..Len(st) : st[i].g = "call"
       IN  /\ (~signal /\ signal1 /\ InCall(stack)) =>
                 /\ ResumedStmt({"ReturnStmt"})
                 /\ ctl'.exc.value = IF top.stmt.expr = NoNode THEN NoneV ELSE ctl.val
                 /\ stack' = Pop(stack)
                 /\ trace'[Len(trace')].e = "done" /\ trace'[Len(trace')].sid = top.sid
                 /\ Positions("step", top.sid) # {}
                 /\ (top.at = "value" /\ statement_end_handler /\ last_modified_frame # 0) =>
                       /\ trace'[Len(trace') - 1].e = "callback"
                       /\ trace'[Len(trace') - 1].arg = last_modified_frame
                 /\ envs' = envs /\ frames' = frames /\ lists' = lists
           /\ (signal /\ InCall(stack) /\ top.g # "call") =>
                 /\ ctl' = ctl /\ stack' = Pop(stack) /\ trace' = trace
                 /\ envs' = envs /\ frames' = frames /\ lists' = lists
                 /\ published' = published /\ sent' = sent
           /\ (signal /\ Resumed("call")) =>
                 /\ ctl' = Ret(ctl.exc.value) /\ stack' = Pop(stack) /\ trace' = trace
                 /\ envs' = envs /\ frames' = frames /\ lists' = lists
                 /\ stack' # <<>> /\ top1.g = "expr"
           /\ (ctl.m = "ret" /\ Resumed("call")) =>
                 ctl' = Ret(NoneV) /\ stack' = Pop(stack)]_vars

\* a return signal with a value is leaving the For loop of the call
C11_Witness ==
    /\ ctl.m = "exc" /\ ctl.exc.type = "ReturnSignal" /\ ctl.exc.value # NoneV
    /\ ResumedStmt({"ForStmt"})
    /\ \E i \in 1..Len(stack) : stack[i].g = "call"

\* the handler was called for the Frame the return expression painted, and
\* the signal is on its way to the call
C11_CallbackWitness ==
    /\ ctl.m = "exc" /\ ctl.exc.type = "ReturnSignal"
    /\ Len(trace) > 1 /\ trace[Len(trace) - 1].e = "callback" /\ trace[Len(trace)].e = "done"
    /\ stack # <<>> /\ Top(stack).g = "block"

\* both modes: the loop of early{2} stopped at its second item, none{} and
\* fall{} returned None
C11_ResultWitness ==
    /\ ctl.m \in {"done", "ran"}
    /\ {"a", "b", "c", "g"} \subseteq DOMAIN envs[1].values
    /\ envs[1].values["a"] = IntV(2) /\ envs[1].values["g"] = IntV(1)
    /\ envs[1].values["b"] = NoneV /\ envs[1].values["c"] = NoneV

\* ---------------------------------------------------------------------
\* C12: the first runtime error ends the run.  Stepping: while the error
\* leaves the generators nothing changes (no environment, Frame, list,
\* publish, StepInfo or statement mark), it ends the sequence, and nothing
\* happens after that.  Eager: the outcome (state, handler calls, error) is
\* that of the program cut after the first top-level statement that fails,
\* so what happened before the error is kept and nothing after it ran.
\* ---------------------------------------------------------------------
C12_ErrorStops ==
    /\ [][LET error == /\ ctl.m = "exc"
                       /\ \/ ctl.exc.type # "ReturnSignal"
                          \/ \A i \in 1..Len(stack) : stack[i].g # "call"
          IN  /\ ctl.m # "failed"
              /\ error =>
                    /\ envs' = envs /\ frames' = frames /\ lists' = lists
                    /\ published' = published /\ sent' = sent /\ trace' = trace
                    /\ stack' = Pop(stack)
                    /\ IF Top(stack).g = "program"
                       THEN ctl'.m = "failed" /\ stack' = <<>>
                       ELSE ctl' = ctl]_vars
    /\ [](ctl.m = "ran" /\ ctl.exc # NoExc =>
            LET IsDecl(item) == item.k = "FunctionDecl"
                Cut(i) == SubSeq(program, 1, i)
                             \o SelectSeq(SubSeq(program, i + 1, Len(program)), IsDecl)
                Run(i) == execute_program(NewInterpreter(FALSE), Cut(i))
                fails == {i \in 1..Len(program) : Failed(Run(i))}
                same(r) == /\ envs = r.w.envs /\ frames = r.w.frames /\ lists = r.w.lists
                           /\ published = r.w.published /\ sent = r.w.sent
                           /\ ctl.exc = r.exc
            IN  /\ fails # {}
                /\ same(Run(CHOOSE i \in fails : \A j \in fails : i <= j)))

\* the step sequence ended with the error of the first loop iteration: the
\* Frame published before is kept, a holds the value assigned last before
\* the error, the statements after it did not run
C12_Witness ==
    /\ ctl.m = "failed"
    /\ Len(published) = 1
    /\ "a" \in DOMAIN envs[1].values /\ envs[1].values["a"] = IntV(2)
    /\ frames[1].display[3][3] = BlankDisplay[3][3]
    /\ frames[1].display[2][2] # BlankDisplay[2][2]

\* the same outcome of the eager run
C12_EagerWitness ==
    /\ ctl.m = "ran" /\ ctl.exc # NoExc
    /\ Len(published) = 1
    /\ "a" \in DOMAIN envs[1].values /\ envs[1].values["a"] = IntV(2)
    /\ frames[1].display[3][3] = BlankDisplay[3][3]

\* ---------------------------------------------------------------------
\* C13: every failure that leaves execute_program or ends the step
\* sequence is a RuntimeErrorWithLine whose line is a line of the source
\* (at least 1)
\* ---------------------------------------------------------------------
C13_ErrorsHaveSourceLine ==
    (ctl.m \in {"ran", "failed"} /\ ctl.exc # NoExc) =>
        /\ ctl.exc.type = "RuntimeErrorWithLine"
        /\ ctl.exc.line >= 1

\* Publish 1. ended the step sequence with line -1
C13_Witness ==
    /\ ctl.m = "failed" /\ ctl.exc = RuntimeErrorWithLine(-1)
    /\ \E i \in 1..Len(program) : program[i].k = "PublishStmt"

\* ---------------------------------------------------------------------
\* C14: the pre-pass binds every top-level function in the global
\* environment before the first top-level statement begins: no statement
\* has left a mark while the program has not started, and from the start
\* on every declared function is bound in globals to its declaration with
\* the globals as closure; a call placed before the declaration returns
\* normally, having run the declared body
\* ---------------------------------------------------------------------
C14_FunctionsBoundFirst ==
    LET decls == {i \in 1..Len(program) : program[i].k = "FunctionDecl"}
        forward == {i \in 1..Len(program) :
                        /\ program[i].k = "ExprStmt" /\ program[i].expr.k = "CallExpr"
                        /\ \E d \in decls : d > i /\ program[d].name = program[i].expr.name}
    IN  /\ ctl.m \in {"new", "start"} => trace = <<>> /\ Len(envs) = 1
        /\ ctl.m \notin {"new", "start"} =>
              \A d \in decls :
                  /\ program[d].name \in DOMAIN envs[1].values
                  /\ envs[1].values[program[d].name] = FunctionValue(program[d], 1)
        /\ (forward # {} /\ ctl.m \in {"ran", "done", "failed"}) =>
              /\ ctl.m # "failed"
              /\ ctl.m = "ran" => ctl.exc = NoExc
              /\ \E i \in 1..Len(trace) : trace[i].e = "exec" /\ trace[i].line > program[1].line

\* the call before the declaration of paint{} has run its body: pixel
\* (5,5) of the published Frame is (0 63 0)
C14_Witness ==
    /\ ctl.m = "done"
    /\ program[1].k = "ExprStmt" /\ program[2].k = "FunctionDecl"
    /\ Len(published) = 1
    /\ published[1].display[6][6] = Color(IntV(0), IntV(63), IntV(0))

\* the same, eagerly
C14_EagerWitness ==
    /\ ctl.m = "ran" /\ ctl.exc = NoExc
    /\ program[1].k = "ExprStmt" /\ program[2].k = "FunctionDecl"
    /\ Len(published) = 1
    /\ published[1].display[6][6] = Color(IntV(0), IntV(63), IntV(0))

\* ---------------------------------------------------------------------
\* C15: entering a user function appends one new environment whose parent
\* is the global environment and which binds exactly the parameters, each
\* to the argument at its position, and the body runs in it; environments
\* are never removed or re-parented and a parent is older than its child,
\* so the chain of a call environment is itself and the globals; a step
\* changes a binding only in an environment on the chain of the running
\* one (never the caller's locals) and adds a name only to the running one
\* (nothing the callee declares reaches the caller or the globals)
\* ---------------------------------------------------------------------
C15_CallScope ==
    [][LET RECURSIVE Chain(_)
           Chain(e) == IF e = 0 THEN {} ELSE {e} \cup Chain(envs[e].parent)
           decl == EnvGet(World, ctl.env, ctl.name).val.decl
           call_env == Len(envs) + 1
           running == IF ctl.m \in {"new", "start"} THEN 1
                      ELSE IF "env" \in DOMAIN ctl THEN ctl.env
                      ELSE IF stack # <<>> /\ "env" \in DOMAIN Top(stack) THEN Top(stack).env
                      ELSE 0
           Names(e) == DOMAIN envs[e].values
       IN  /\ Len(envs') >= Len(envs)
           /\ \A e \in 1..Len(envs) :
                 /\ envs'[e].parent = envs[e].parent /\ envs[e].parent < e
                 /\ Names(e) \subseteq DOMAIN envs'[e].values
                 /\ envs'[e] # envs[e] => e \in Chain(running)
                 /\ DOMAIN envs'[e].values # Names(e) => e = running
           /\ (ctl.m = "call" /\ ctl'.m = "block") =>
                 /\ Len(envs') = call_env
                 /\ envs'[call_env].parent = 1
                 /\ DOMAIN envs'[call_env].values =
                        {decl.params[i].name : i \in 1..Len(decl.params)}
                 /\ \A i \in 1..Len(decl.params) :
                        envs'[call_env].values[decl.params[i].name] = ctl.args[i]
                 /\ ctl'.env = call_env /\ ctl'.stmts = decl.body
                 /\ \A i \in 1..Len(stack) : "env" \in DOMAIN stack[i] => stack[i].env # call_env]_vars

\* three calls of down are open, each with its own n: 2, 1, 0
C15_Witness ==
    /\ Cardinality({i \in 1..Len(stack) : stack[i].g = "call"}) = 3
    /\ Len(envs) = 4
    /\ \A e \in 2..4 : envs[e].parent = 1 /\ envs[e].values["n"] = IntV(4 - e)

\* down{2} returned 2 + 1 + 0: no call disturbed the n of its caller
C15_RecursionWitness ==
    /\ ctl.m \in {"done", "ran"} /\ Len(envs) = 4
    /\ "a" \in DOMAIN envs[1].values /\ envs[1].values["a"] = IntV(3)

\* bump read and assigned the global g (1 + 5), its names and outer's stay
\* out of the globals, and peek{} failed reading outer's x
C15_ScopeWitness ==
    /\ ctl.m = "failed" /\ ctl.exc = RuntimeErrorWithLine(11)
    /\ Len(envs) = 4
    /\ envs[1].values["g"] = IntV(6)
    /\ DOMAIN envs[2].values = {"x", "u"} /\ DOMAIN envs[4].values = {}
    /\ envs[3].values = [n \in {"x", "y", "t"} |-> IntV(IF n = "y" THEN 5 ELSE 7)]
    /\ DOMAIN envs[1].values \cap {"x", "y", "t", "u", "a"} = {}

\* ---------------------------------------------------------------------
\* C16: a call of a user function with a wrong number of arguments raises
\* a runtime error with the line of the call and does nothing else: no
\* generator is entered, no StepInfo or statement mark is added, no
\* binding of an existing environment, no Frame and no list changes, and
\* an environment made for the call holds no binding
\* ---------------------------------------------------------------------
C16_ArityMismatch ==
    [][LET fn == EnvGet(World, ctl.env, ctl.name)
       IN  (/\ ctl.m = "call" /\ ~Failed(fn) /\ fn.val.t = "FunctionValue"
            /\ Len(ctl.args) # Len(fn.val.decl.params)) =>
               /\ ctl'.m = "exc" /\ ctl'.exc.type = "RuntimeErrorWithLine"
               /\ ctl'.exc.line = ctl.line
               /\ stack' = stack /\ trace' = trace
               /\ frames' = frames /\ lists' = lists
               /\ published' = published /\ sent' = sent
               /\ SubSeq(envs', 1, Len(envs)) = envs
               /\ \A e \in Len(envs) + 1..Len(envs') : DOMAIN envs'[e].values = {}]_vars

\* two{1} has just failed inside wrap{}: the error carries the line of the
\* call (7), not the line of the top-level statement (10)
C16_Witness ==
    /\ ctl.m = "exc" /\ ctl.exc = RuntimeErrorWithLine(7)
    /\ stack # <<>> /\ Top(stack).g = "expr" /\ Top(stack).at = "call"
    /\ Top(stack).expr.name = "two" /\ Len(Top(stack).expr.args) = 1

\* both modes end with that error, the pixel painted before the call, and
\* g untouched by the body of two
C16_ResultWitness ==
    /\ ctl.m \in {"ran", "failed"} /\ ctl.exc = RuntimeErrorWithLine(7)
    /\ envs[1].values["g"] = IntV(0)
    /\ frames[1].display[1][1] = Color(IntV(1), IntV(1), IntV(1))
    /\ \A i \in 1..Len(trace) : trace[i].line \notin {2, 3}

\* ---------------------------------------------------------------------
\* C17: set changes the binding of the name in the nearest environment on
\* the parent chain that holds it and nothing else (and returns); when no
\* environment of the chain holds the name it raises NameError and no
\* binding is created or changed.  define binds the name in the current
\* environment only, whether or not an ancestor holds it, so that the
\* current environment becomes the nearest holder (the ancestor's binding
\* is shadowed, not changed).
\* ---------------------------------------------------------------------
C17_SetNearestDefineCurrent ==
    [][LET RECURSIVE Path(_)
           Path(e) == IF e = 0 THEN <<>> ELSE <<e>> \o Path(envs[e].parent)
           path == Path(ctl.env)
           Holds(i, es) == ctl.name \in DOMAIN es[path[i]].values
           holders == {i \in 1..Len(path) : Holds(i, envs)}
           nearest == path[CHOOSE i \in holders : \A j \in holders : i <= j]
           \* every binding but that of ctl.name in environment e is as before
           OnlyChanged(e) ==
               /\ Len(envs') = Len(envs)
               /\ \A x \in 1..Len(envs) :
                     /\ envs'[x].parent = envs[x].parent
                     /\ DOMAIN envs'[x].values \ {ctl.name} = DOMAIN envs[x].values \ {ctl.name}
                     /\ \A nm \in DOMAIN envs[x].values :
                           (x # e \/ nm # ctl.name) =>
                               /\ nm \in DOMAIN envs'[x].values
                               /\ envs'[x].values[nm] = envs[x].values[nm]
                     /\ x # e => DOMAIN envs'[x].values = DOMAIN envs[x].values
       IN  /\ (ctl.m = "env" /\ ctl.op = "set" /\ holders # {}) =>
                 /\ ctl'.exc = NoExc
                 /\ OnlyChanged(nearest)
                 /\ DOMAIN envs'[nearest].values = DOMAIN envs[nearest].values
                 /\ envs'[nearest].values[ctl.name] = ctl.value
           /\ (ctl.m = "env" /\ ctl.op = "set" /\ holders = {}) =>
                 /\ ctl'.exc.type = "NameError"
                 /\ envs' = envs
           /\ (ctl.m = "env" /\ ctl.op = "define") =>
                 /\ ctl'.exc = NoExc
                 /\ OnlyChanged(ctl.env)
                 /\ DOMAIN envs'[ctl.env].values = DOMAIN envs[ctl.env].values \cup {ctl.name}
                 /\ envs'[ctl.env].values[ctl.name] = ctl.value]_vars

\* set was called on environment 3, which does not hold the name; its
\* parent 2 holds it and now binds the new value; the globals hold it too
\* and keep the old one
C17_Witness ==
    /\ ctl.m = "returned" /\ ctl.op = "set" /\ ctl.exc = NoExc
    /\ ctl.env = 3 /\ envs[3].parent = 2 /\ envs[2].parent = 1
    /\ ctl.name \notin DOMAIN envs[3].values
    /\ ctl.name \in DOMAIN envs[2].values /\ envs[2].values[ctl.name] = ctl.value
    /\ ctl.name \in DOMAIN envs[1].values /\ envs[1].values[ctl.name] = IntV(1)

\* set failed: no environment of the chain holds the name, a sibling does
C17_FailedWitness ==
    /\ ctl.m = "returned" /\ ctl.op = "set" /\ ctl.exc.type = "NameError"
    /\ ctl.env = 3 /\ envs[3].parent = 1 /\ envs[2].parent = 1
    /\ ctl.name \in DOMAIN envs[2].values
    /\ ctl.name \notin DOMAIN envs[3].values \cup DOMAIN envs[1].values

\* define shadowed the binding of the globals
C17_ShadowWitness ==
    /\ ctl.m = "returned" /\ ctl.op = "define"
    /\ ctl.env = 2 /\ envs[2].values[ctl.name] = ctl.value
    /\ ctl.name \in DOMAIN envs[1].values /\ envs[1].values[ctl.name] = IntV(1)

\* ---------------------------------------------------------------------
\* C18: each iteration of a For makes a new environment, child of the
\* environment the For runs in, that binds exactly the loop variable to the
\* next item of the list (item k in iteration k), and runs the body in it;
\* when the iteration is over nothing refers to that environment any more
\* (not the For, not a later iteration, not the statement after the loop),
\* so neither the loop variable nor a name the body declared is visible
\* later; the For itself never changes an existing environment, so what
\* the body assigned to enclosing variables stays
\* ---------------------------------------------------------------------
C18_ForScope ==
    [][LET top == Top(stack)
           loop_env == Len(envs) + 1
           Refers(c, st, e) ==
               \/ "env" \in DOMAIN c /\ c.env = e
               \/ \E i \in 1..Len(st) : "env" \in DOMAIN st[i] /\ st[i].env = e
       IN  (ResumedStmt({"ForStmt"}) /\ ctl.m = "ret") =>
              /\ SubSeq(envs', 1, Len(envs)) = envs
              /\ top.at = "resume" =>
                    /\ Len(envs') = loop_env
                    /\ envs'[loop_env].parent = top.env
                    /\ DOMAIN envs'[loop_env].values = {top.stmt.var_name}
                    /\ top.i = Cardinality(Positions("exec", top.sid)) + 1
                    /\ envs'[loop_env].values[top.stmt.var_name] = lists[top.iterable][top.i]
                    /\ ctl'.m = "block" /\ ctl'.env = loop_env /\ ctl'.stmts = top.stmt.body
                    /\ Top(stack').loop_env = loop_env
              /\ top.at = "body" =>
                    /\ envs' = envs
                    /\ top.loop_env > top.env
                    /\ ~Refers(ctl', Pop(stack'), top.loop_env)
                    /\ \A e \in 1..Len(envs) : envs[e].parent # top.loop_env]_vars

\* the second iteration is about to run its body in environment 4, a
\* child of the call environment that binds x only, to the second item;
\* the y of the first iteration sits in environment 3
C18_Witness ==
    /\ ctl.m = "block" /\ ctl.env = 4
    /\ stack # <<>> /\ Top(stack).g = "stmt"
    /\ Top(stack).stmt.k = "ForStmt" /\ Top(stack).i = 2
    /\ Len(envs) = 4 /\ envs[4].parent = 2 /\ envs[3].parent = 2
    /\ envs[4].values = [n \in {"x"} |-> IntV(4)]
    /\ DOMAIN envs[3].values = {"x", "y"}

\* both modes: the second iteration could not read the y of the first; s
\* holds what the first iteration assigned
C18_LaterWitness ==
    /\ ctl.m \in {"ran", "failed"} /\ ctl.exc = RuntimeErrorWithLine(9)
    /\ Len(envs) = 4 /\ envs[2].values["s"] = IntV(3)
    /\ DOMAIN envs[4].values = {"x"}

\* both modes: the statement after the loop could not read x; s holds
\* the sum of both iterations
C18_AfterWitness ==
    /\ ctl.m \in {"ran", "failed"} /\ ctl.exc = RuntimeErrorWithLine(9)
    /\ Len(envs) = 4 /\ envs[2].values["s"] = IntV(7)
    /\ DOMAIN envs[2].values = {"s"}
    /\ DOMAIN envs[3].values = {"x", "y"} /\ DOMAIN envs[4].values = {"x", "y"}

\* ---------------------------------------------------------------------
\* C19: when the left operand of `and` is falsy, or the left operand of
\* `or` is truthy, the operator returns without evaluating the right
\* operand: the stepping interpreter returns the left value at once, and a
\* run (eager or stepping) of a program whose statement
\* `b = false and (x = 1)` holds the only assignment to x ends with the x
\* it began with
\* ---------------------------------------------------------------------
C19_ShortCircuit ==
    /\ [][(/\ Resumed("expr") /\ ctl.m = "ret" /\ Top(stack).at = "left"
           /\ \/ Top(stack).expr.op = "and" /\ ~Truthy(World, ctl.val)
              \/ Top(stack).expr.op = "or" /\ Truthy(World, ctl.val)) =>
              /\ ctl' = ctl
              /\ stack' = Pop(stack)]_vars
    /\ [](/\ ctl.m \in {"ran", "done"}
          /\ Len(program) >= 3 /\ program[2].k = "VarDecl" /\ program[3].k = "VarDecl"
          /\ program[3].value.k = "BinaryOp" /\ program[3].value.op = "and"
          /\ program[3].value.left = Literal(BoolV(FALSE), program[3].line)
          /\ program[3].value.right.k = "WalrusAssign"
          /\ program[3].value.right.name = program[2].name
          => envs[1].values[program[2].name] = IntV(0))

\* the run of `int x = 0.  bool b = false and (x = 1).  bool c = true or
\* one{}.` ended with x = 1, and the body of one{} has yielded StepInfos
C19_Witness ==
    /\ ctl.m = "done"
    /\ Len(program) >= 3 /\ program[3].k = "VarDecl" /\ program[3].value.k = "BinaryOp"
    /\ program[3].value.op = "and"
    /\ envs[1].values["x"] = IntV(1)
    /\ \E i \in 1..Len(trace) : trace[i].e = "step" /\ trace[i].line \in {2, 3}

\* the same eagerly
C19_EagerWitness ==
    /\ ctl.m = "ran" /\ ctl.exc = NoExc
    /\ Len(program) >= 3 /\ program[3].k = "VarDecl" /\ program[3].value.k = "BinaryOp"
    /\ program[3].value.op = "and"
    /\ envs[1].values["x"] = IntV(1)
    /\ Len(envs) = 2

\* ---------------------------------------------------------------------
\* C20: ~, | and & on integer operands return an integer from 0 to
\* 2^32 - 1 whose bit i (0..31) is the not / or / and of bit i of the
\* operands' two's complement; with an operand that is not an integer
\* they raise a runtime error
\* ---------------------------------------------------------------------
\* bit i (0..31) of the two's complement of an integer value
C20_Bit(v, i) ==
    IF v.t = "long" THEN (IF i < 16 THEN (v.lo \div 2^i) % 2 ELSE (v.hi \div 2^(i - 16)) % 2)
    ELSE IF i = 31 THEN (IF v.v < 0 THEN 1 ELSE 0)
    ELSE (v.v \div 2^i) % 2

\* the operator returned an integer from 0 to 2^32 - 1 that is, bit by
\* bit, the operation on the two's complement of left and right
C20_Result(left, right) ==
    /\ ctl.exc = NoExc
    /\ \/ ctl.val.t = "int" /\ ctl.val.v >= 0
       \/ ctl.val.t = "long" /\ ctl.val.hi \in 32768..65535 /\ ctl.val.lo \in 0..65535
    /\ \A i \in 0..31 :
          C20_Bit(ctl.val, i) =
              CASE ctl.op = "~" -> 1 - C20_Bit(left, i)
                [] ctl.op = "|" -> IF C20_Bit(left, i) = 1 \/ C20_Bit(right, i) = 1 THEN 1 ELSE 0
                [] ctl.op = "&" -> IF C20_Bit(left, i) = 1 /\ C20_Bit(right, i) = 1 THEN 1 ELSE 0

C20_BitwiseMasked ==
    ctl.m = "evaluated" =>
        IF \A v \in (IF ctl.op = "~" THEN {ctl.left} ELSE {ctl.left, ctl.right}) :
               v.t \in {"int", "long"}
        THEN C20_Result(ctl.left, ctl.right)
        ELSE ctl.exc.type = "RuntimeErrorWithLine" /\ ctl.exc.line = ctl.line

\* true | 2 returned 3
C20_Witness ==
    /\ ctl.m = "evaluated" /\ ctl.op = "|"
    /\ ctl.left = BoolV(TRUE) /\ ctl.right = IntV(2)
    /\ ctl.exc = NoExc /\ ctl.val = IntV(3)

\* what the operators do: a boolean operand counts as the integer 1 or 0;
\* only an operand that is neither an integer nor a boolean is an error
C20_MaskedWithBooleans ==
    ctl.m = "evaluated" =>
        LET AsPyInt(v) == IF v.t = "bool" THEN IntV(AsInt(v)) ELSE v
        IN  IF \A v \in (IF ctl.op = "~" THEN {ctl.left} ELSE {ctl.left, ctl.right}) :
                   v.t \in {"int", "long", "bool"}
            THEN C20_Result(AsPyInt(ctl.left), AsPyInt(ctl.right))
            ELSE ctl.exc.type = "RuntimeErrorWithLine" /\ ctl.exc.line = ctl.line

\* ~0 returned 2^32 - 1
C20_AllOnesWitness ==
    /\ ctl.m = "evaluated" /\ ctl.op = "~" /\ ctl.left = IntV(0)
    /\ ctl.val = LongV(65535, 65535)

\* -2 & 65536 returned 65536, -2^31 | 1 returned 2^31 + 1
C20_NegativeWitness ==
    /\ ctl.m = "evaluated"
    /\ \/ ctl.op = "&" /\ ctl.left = IntV(-2) /\ ctl.right = IntV(65536) /\ ctl.val = IntV(65536)
       \/ /\ ctl.op = "|" /\ ctl.left = IntV(-2147483647 - 1) /\ ctl.right = IntV(1)
          /\ ctl.val = LongV(32768, 1)


\* ---------------------------------------------------------------------
\* C21: a pixel assignment whose left side is not a PixelRef, or whose
\* right side is not a 3-tuple, raises a runtime error with the
\* statement's line and changes no pixel of any Frame; otherwise it makes
\* exactly one setColor call on the PixelRef's Frame at the PixelRef's
\* (x, y) with the tuple's three components: the Frames and the callback
\* marks after the step are those of that one call, and for coordinates
\* inside the window the pixel holds the value, every other pixel is
\* unchanged and the on-change callback ran once.
\* ---------------------------------------------------------------------
C21_PixelAssign ==
    [][(ResumedStmt({"PixelAssign"}) /\ ctl.m = "ret" /\ Top(stack).at = "pointer") =>
        LET ptr == ctl.val
            value == Top(stack).value
            line == Top(stack).stmt.line
            notified(t) == Cardinality({i \in 1..Len(t) : t[i].e = "notify"})
            set == FrameSetColor(World, ptr.frame, ptr.x, ptr.y,
                                 value.v[1], value.v[2], value.v[3])
        IN  IF ptr.t # "PixelRef" \/ value.t # "tuple" \/ Len(value.v) # 3
            THEN /\ ctl'.m = "exc"
                 /\ ctl'.exc.type = "RuntimeErrorWithLine"
                 /\ ctl'.exc.line = line
                 /\ frames' = frames
                 /\ notified(trace') = notified(trace)
            ELSE /\ frames' = set.w.frames
                 /\ notified(trace') = notified(set.w.trace)
                 /\ Failed(set) => ctl'.m = "exc" /\ ctl'.exc = set.exc
                 /\ (IsInt(ptr.x) /\ IsInt(ptr.y) /\ InWindow(AsInt(ptr.x), AsInt(ptr.y))) =>
                       /\ ctl'.m = "ret"
                       /\ frames' = [frames EXCEPT
                                        ![ptr.frame].display[AsInt(ptr.y) + 1][AsInt(ptr.x) + 1] =
                                            value]
                       /\ notified(trace') = notified(trace) + 1]_vars

\* the statement f->(3 3) = (1 1) failed at its line 3 and the Frame is as
\* the first statement painted it
C21_Witness ==
    /\ Stepping
    /\ Len(program) = 4 /\ program[3].k = "PixelAssign" /\ program[3].value.k = "PixelLit"
    /\ ctl.m = "failed" /\ ctl.exc.type = "RuntimeErrorWithLine" /\ ctl.exc.line = 3
    /\ frames[1].display[4][4] = Color(IntV(3), IntV(3), IntV(3))

\* the statement f = (1 1 1) in pixel-assignment form (left side a Frame)
\* failed at its line 3
C21_PointerWitness ==
    /\ Stepping
    /\ Len(program) = 4 /\ program[3].k = "PixelAssign" /\ program[3].pointer.k = "Var"
    /\ ctl.m = "failed" /\ ctl.exc.type = "RuntimeErrorWithLine" /\ ctl.exc.line = 3
    /\ frames[1].display[5][5] = Black

\* both assignments of a well-formed program painted their pixel
C21_PaintedWitness ==
    /\ Stepping
    /\ ctl.m = "done"
    /\ Len(frames) = 1
    /\ frames[1].display[3][2] = Color(IntV(3), IntV(3), IntV(3))
    /\ Cardinality({i \in 1..Len(trace) : trace[i].e = "notify"}) = 1

\* ---------------------------------------------------------------------
\* C22: a pixel read or write through a PixelRef whose coordinates lie
\* outside 0 <= x < 64, 0 <= y < 32, negative coordinates included, fails
\* with a runtime error and changes no pixel.  The steps concerned are the
\* pixel assignment's call of assign_pixel and the call of a pixel
\* built-in (setColor, setRed, ..., getPixel, getRed, ...) with such a
\* PixelRef.
\* ---------------------------------------------------------------------
\* the PixelRef the next step reads or writes through, None when the next
\* step is no pixel access
C22_Accessed ==
    LET write == /\ ResumedStmt({"PixelAssign"}) /\ ctl.m = "ret" /\ Top(stack).at = "pointer"
                 /\ ctl.val.t = "PixelRef"
                 /\ IsColor(Top(stack).value)
        builtin == /\ ctl.m = "call"
                   /\ ctl.name \in {"setColor", "setRed", "setGreen", "setBlue",
                                    "getPixel", "getRed", "getGreen", "getBlue"}
                   /\ EnvGet(World, ctl.env, ctl.name).val = Builtin(ctl.name)
                   /\ Len(ctl.args) = (IF ctl.name \in {"setColor", "setRed", "setGreen", "setBlue"}
                                       THEN 2 ELSE 1)
                   /\ ctl.args[1].t = "PixelRef"
        ref == IF write THEN ctl.val ELSE IF builtin THEN ctl.args[1] ELSE NoneV
    IN  IF ref # NoneV /\ IsInt(ref.x) /\ IsInt(ref.y) THEN ref ELSE NoneV

C22_OutOfRangeFails ==
    [][(C22_Accessed # NoneV /\ ~InWindow(AsInt(C22_Accessed.x), AsInt(C22_Accessed.y))) =>
           ctl'.m = "exc" /\ frames' = frames]_vars

\* the negative coordinates (-1 -1) were written through without an error:
\* the pixel in the last column of the last row changed
C22_Witness ==
    /\ Stepping
    /\ ctl.m # "exc"
    /\ Len(frames) = 1
    /\ Len(frames[1].display) = Height
    /\ frames[1].display[Height][Width] = Color(IntV(1), IntV(1), IntV(1))

\* what the code does: the access fails and changes nothing when a
\* coordinate is past either end of its list (x >= 64, y >= 32, x < -64 or
\* y < -32)
C22_PastEndFails ==
    [][(/\ C22_Accessed # NoneV
        /\ \/ AsInt(C22_Accessed.x) >= Width \/ AsInt(C22_Accessed.x) < -Width
           \/ AsInt(C22_Accessed.y) >= Height \/ AsInt(C22_Accessed.y) < -Height) =>
           ctl'.m = "exc" /\ frames' = frames]_vars

\* ---------------------------------------------------------------------
\* C23: with a publish handler installed, the step of a Publish statement
\* whose value is a Frame calls the handler exactly once, within the step
\* and before the statement is done, with that Frame in the state every
\* earlier pixel write left it in; when the value is not a Frame the step
\* raises a runtime error and the handler is not called.  No other step of
\* the stepping interpreter calls the handler.
\* ---------------------------------------------------------------------
C23_PublishCallsHandler ==
    [][IF ResumedStmt({"PublishStmt"}) /\ ctl.m = "ret" /\ Top(stack).at = "value"
       THEN IF ctl.val.t = "Frame"
            THEN /\ published' = Append(published,
                                        [frame |-> ctl.val.ref,
                                         display |-> frames[ctl.val.ref].display])
                 /\ frames' = frames
                 /\ ctl'.m = "ret"
                 /\ Len(trace') > Len(trace) + 1
                 /\ trace'[Len(trace) + 1].e = "publish"
                 /\ trace'[Len(trace) + 1].arg = ctl.val.ref
                 /\ trace'[Len(trace')].e = "done"
                 /\ \A i \in (Len(trace) + 2)..Len(trace') : trace'[i].e # "publish"
            ELSE /\ ctl'.m = "exc"
                 /\ ctl'.exc.type = "RuntimeErrorWithLine"
                 /\ published' = published
                 /\ \A i \in (Len(trace) + 1)..Len(trace') : trace'[i].e # "publish"
       ELSE Stepping => published' = published]_vars

\* Publish f ran after f->(1 2) = (3 3 3): the handler was called once, with
\* Frame f showing that pixel
C23_Witness ==
    /\ Stepping
    /\ ctl.m = "done"
    /\ Len(program) = 3
    /\ Len(published) = 1
    /\ published[1].frame = 1
    /\ published[1].display[3][2] = Color(IntV(3), IntV(3), IntV(3))
    /\ published[1].display = frames[1].display

\* Publish 1 failed and the handler was never called
C23_NotFrameWitness ==
    /\ Stepping
    /\ ctl.m = "failed"
    /\ Len(program) = 2 /\ program[2].k = "PublishStmt"
    /\ published = <<>>

\* two Publish statements ran with a pixel write between them: the handler
\* was called twice and the first call did not show the later write
C23_TwiceWitness ==
    /\ Stepping
    /\ Len(published) = 2
    /\ published[2].display = frames[1].display
    /\ published[1].display[3][3] = Black
    /\ published[2].display[3][3] = Color(IntV(2), IntV(2), IntV(2))
    /\ published[1].frame = published[2].frame
    /\ published[1].display # published[2].display

\* ---------------------------------------------------------------------
\* C24: a source statement `Send e.` is accepted by the lexer and the
\* parser as a Send statement: for every expression e the parser accepts,
\* parsing `Send e.` succeeds and yields the one item SendStmt(e).
\* ---------------------------------------------------------------------
C24_SendParsed ==
    (/\ ctl.m = "parsed"
     /\ Len(ctl.source) >= 3
     /\ ctl.source[1] = [c |-> "word", text |-> "Send"]
     /\ ctl.source[Len(ctl.source)] = [c |-> "op", text |-> "."]
     /\ LET e == lex_source(SubSeq(ctl.source, 2, Len(ctl.source) - 1))
            expr == Parser("parse_pointer_expr", e, 0, NoNode)
        IN  expr.err = "" /\ expr.pos = Len(e) - 1) =>
        LET e == lex_source(SubSeq(ctl.source, 2, Len(ctl.source) - 1))
        IN  /\ ctl.err = ""
            /\ program = <<SendStmt(Parser("parse_pointer_expr", e, 0, NoNode).node, 1)>>

\* Send "a.qgc". was lexed with Send as an identifier and the parser
\* raised ParseError
C24_Witness ==
    /\ ctl.m = "parsed"
    /\ ctl.source = <<[c |-> "word", text |-> "Send"], [c |-> "quoted", text |-> "a.qgc"],
                      [c |-> "op", text |-> "."]>>
    /\ ctl.tokens[1] = Token("IDENT", "Send", 1)
    /\ ctl.err = "ParseError"

\* what the parser does accept: Publish e. for the same expressions
C24_PublishParsed ==
    (/\ ctl.m = "parsed"
     /\ Len(ctl.source) >= 3
     /\ ctl.source[1] = [c |-> "word", text |-> "Publish"]
     /\ ctl.source[Len(ctl.source)] = [c |-> "op", text |-> "."]
     /\ LET e == lex_source(SubSeq(ctl.source, 2, Len(ctl.source) - 1))
            expr == Parser("parse_pointer_expr", e, 0, NoNode)
        IN  expr.err = "" /\ expr.pos = Len(e) - 1) =>
        LET e == lex_source(SubSeq(ctl.source, 2, Len(ctl.source) - 1))
        IN  /\ ctl.err = ""
            /\ program = <<PublishStmt(Parser("parse_pointer_expr", e, 0, NoNode).node, 1)>>

\* no source of the model reaches a part of the parser the model leaves out
C24_NothingUnmodelled == ctl.m = "parsed" => ctl.err # "Unmodelled"

\* ---------------------------------------------------------------------
\* C25: on any Frame a sequence of raster operations has produced, and for
\* any (x, y) in range, setColor(x, y, r, g, b) returns normally, afterwards
\* getPixel(x, y) returns (r, g, b), and every other pixel has the value it
\* had before the call; getPixel returns the pixel and changes nothing.
\* ---------------------------------------------------------------------
C25_SetThenGet ==
    [][/\ (ctl'.call.name = "setColor" /\ InWindow(ctl'.call.args[1], ctl'.call.args[2])) =>
            LET x == ctl'.call.args[1]
                y == ctl'.call.args[2]
                get == FrameGetPixel([World EXCEPT !.frames = frames'], 1, IntV(x), IntV(y))
            IN  /\ ctl'.exc = NoExc
                /\ get.exc = NoExc /\ get.val = ctl'.call.color
                /\ \A r \in 1..Height : \A c \in 1..Width :
                      (r # y + 1 \/ c # x + 1) =>
                          frames'[1].display[r][c] = frames[1].display[r][c]
                /\ Len(frames'[1].display) = Height
                /\ \A r \in 1..Height : Len(frames'[1].display[r]) = Width
       /\ ctl'.call.name = "getPixel" =>
            /\ ctl'.val = frames[1].display[ctl'.call.args[2] + 1][ctl'.call.args[1] + 1]
            /\ frames' = frames]_vars

\* setColor(63, 31, blue) was the third call, on a Frame whose pixel (2, 2)
\* an earlier call had made red
C25_Witness ==
    /\ ctl.m = "frame" /\ ctl.n = 3
    /\ ctl.call = [name |-> "setColor", args |-> <<63, 31>>, color |-> Blue]
    /\ frames[1].display[Height][Width] = Blue
    /\ frames[1].display[3][3] = Red
    /\ frames[1].display[2][2] = Black

\* ---------------------------------------------------------------------
\* Counting the callbacks of a Frame call
\* ---------------------------------------------------------------------
\* the marks `e` the last call left
MarksOf(e) == Cardinality({i \in 1..Len(trace) : trace[i].e = e})

\* the number of pixel writes the call c makes on a Frame: the cells of the
\* rectangle, the in-window points of the line, the in-window originals
\* plus the in-window destinations of the selection
WritesOf(c) ==
    CASE c.name = "makeRect" ->
              (c.args[3] - c.args[1] + 1) * (c.args[4] - c.args[2] + 1)
      [] c.name = "makeLine" ->
              Len(LineCells(c.args[1], c.args[2], c.args[3], c.args[4],
                            Abs(c.args[3] - c.args[1]) - Abs(c.args[4] - c.args[2])))
      [] c.name = "moveSelection" ->
              Cardinality({i \in 1..Len(c.color) : InWindow(c.color[i][1][1], c.color[i][1][2])})
              + Cardinality({i \in 1..Len(c.color) :
                                InWindow(c.color[i][1][1] + c.args[1], c.color[i][1][2] + c.args[2])})
      [] OTHER -> 1

\* ---------------------------------------------------------------------
\* C26: each of makeRect, makeLine, fill and moveSelection invokes the
\* installed on-change callback once for every pixel it writes, as if
\* every write were a setColor call: the callback runs at least as often
\* as a pixel changes, as often as the call writes a pixel, and at least
\* once when the call changed the Frame.  (makeOval and makeCurve are not
\* part of the model.)
\* ---------------------------------------------------------------------
C26_CallbackPerWrite ==
    [][ctl'.call.name \in {"makeRect", "makeLine", "fill", "moveSelection"} =>
          /\ MarksOf("notify")' >= MarksOf("change")'
          /\ frames' # frames => MarksOf("notify")' >= 1
          /\ ctl'.call.name # "fill" => MarksOf("notify")' = WritesOf(ctl'.call)
          /\ ctl'.call.name = "fill" =>
                MarksOf("notify")' =
                    Cardinality({p \in (1..Height) \X (1..Width) :
                                    frames'[1].display[p[1]][p[2]] # frames[1].display[p[1]][p[2]]})
      ]_vars

\* fill recolored the sixteen pixels of a red square and the callback never
\* ran
C26_Witness ==
    /\ ctl.m = "frame"
    /\ ctl.call = [name |-> "fill", args |-> <<2, 2>>, color |-> Blue]
    /\ MarksOf("change") = 16
    /\ MarksOf("notify") = 0
    /\ frames[1].display[2][2] = Blue

C27_MoveWitness ==
    /\ ctl.m = "frame"
    /\ ctl.call.name = "moveSelection" /\ ctl.call.args = <<1, 0>>
    /\ Len(ctl.call.color) = 2
    /\ MarksOf("notify") = 4

\* ---------------------------------------------------------------------
\* C28: fill(x, y, r, g, b) with a seed in range whose color differs from
\* (r, g, b) returns normally, writes (r, g, b) to exactly the pixels that
\* 4-neighbour steps from the seed reach through pixels of the seed's
\* original color, and leaves every other pixel unchanged.  On the Frame
\* that holds the red outline of the rectangle (1, 1)-(4, 4) on black, a
\* fill seeded inside colors the four interior pixels and nothing else.
\* ---------------------------------------------------------------------
C28_FloodFill ==
    [][(/\ ctl'.call.name = "fill"
        /\ InWindow(ctl'.call.args[1], ctl'.call.args[2])
        /\ frames[1].display[ctl'.call.args[2] + 1][ctl'.call.args[1] + 1] # ctl'.call.color) =>
          LET d == frames[1].display
              seed == <<ctl'.call.args[1], ctl'.call.args[2]>>
              reached == Region(d, {seed}, d[seed[2] + 1][seed[1] + 1])
              outline(x, y) == x \in 1..4 /\ y \in 1..4 /\ (x \in {1, 4} \/ y \in {1, 4})
              inside(x, y) == x \in 2..3 /\ y \in 2..3
          IN  /\ ctl'.exc = NoExc
              /\ \A y \in 0..(Height - 1) : \A x \in 0..(Width - 1) :
                    frames'[1].display[y + 1][x + 1] =
                        IF <<x, y>> \in reached THEN ctl'.call.color ELSE d[y + 1][x + 1]
              /\ (\A y \in 0..(Height - 1) : \A x \in 0..(Width - 1) :
                     d[y + 1][x + 1] = IF outline(x, y) THEN Red ELSE Black) =>
                    \A y \in 0..(Height - 1) : \A x \in 0..(Width - 1) :
                       frames'[1].display[y + 1][x + 1] =
                           IF outline(x, y) THEN Red
                           ELSE IF inside(x, y) THEN ctl'.call.color
                           ELSE Black]_vars

\* fill(2, 2, blue) inside the red outline: the four interior pixels are
\* blue, the outline is red, the exterior black
C28_Witness ==
    /\ ctl.m = "frame" /\ ctl.n = 3
    /\ ctl.call = [name |-> "fill", args |-> <<2, 2>>, color |-> Blue]
    /\ MarksOf("change") = 4
    /\ \A y \in 0..(Height - 1) : \A x \in 0..(Width - 1) :
          frames[1].display[y + 1][x + 1] =
              IF x \in 2..3 /\ y \in 2..3 THEN Blue
              ELSE IF x \in 1..4 /\ y \in 1..4 THEN Red
              ELSE Black

\* fill(2, 2, blue) on a single red pixel surrounded by black recolored
\* that pixel alone
C28_SingleWitness ==
    /\ ctl.m = "frame" /\ ctl.n = 2
    /\ ctl.call = [name |-> "fill", args |-> <<2, 2>>, color |-> Blue]
    /\ MarksOf("change") = 1
    /\ frames[1].display[3][3] = Blue
    /\ frames[1].display[3][4] = Black


\* ---------------------------------------------------------------------
\* C29: flood fill is idempotent: a fill(x, y, c) that directly follows
\* the same fill(x, y, c) leaves every pixel of the Frame as the first
\* call left it, whatever the Frame, the seed (in range or not) and the
\* color, and returns normally.
\* ---------------------------------------------------------------------
C29_FillIdempotent ==
    [][(/\ ctl.call.name = "fill"
        /\ ctl'.call.name = "fill"
        /\ ctl'.call.args = ctl.call.args
        /\ ctl'.call.color = ctl.call.color) =>
          /\ frames' = frames
          /\ ctl'.exc = NoExc
          /\ MarksOf("change")' = 0]_vars

\* fill(2, 2, blue) was called again on the red square that the call
\* before it had turned blue: the second call wrote nothing
C29_Witness ==
    /\ ctl.m = "frame" /\ ctl.n = 3
    /\ ctl.call = [name |-> "fill", args |-> <<2, 2>>, color |-> Blue]
    /\ MarksOf("change") = 0
    /\ \A y \in 1..4 : \A x \in 1..4 : frames[1].display[y + 1][x + 1] = Blue
    /\ frames[1].display[1][1] = Black

\* the same for a seed outside the window, where both calls do nothing
C29_OutsideWitness ==
    /\ ctl.m = "frame" /\ ctl.n = 3
    /\ ctl.call.name = "fill" /\ ctl.call.args = <<64, 0>>
    /\ frames[1].display[3][3] = Red

\* ---------------------------------------------------------------------
\* C30: moveSelection(pixels, 0, 0) leaves every pixel of the Frame
\* unchanged when each listed coordinate is in range and is listed with
\* the color the Frame holds there before the call; a coordinate may be
\* listed more than once.
\* ---------------------------------------------------------------------
C30_MoveByZero ==
    [][(/\ ctl'.call.name = "moveSelection"
        /\ ctl'.call.args = <<0, 0>>
        /\ \A i \in 1..Len(ctl'.call.color) :
              /\ InWindow(ctl'.call.color[i][1][1], ctl'.call.color[i][1][2])
              /\ ctl'.call.color[i][2] =
                    frames[1].display[ctl'.call.color[i][1][2] + 1][ctl'.call.color[i][1][1] + 1]) =>
          /\ frames'[1].display = frames[1].display
          /\ ctl'.exc = NoExc]_vars

\* moveSelection([((2,2), red), ((63,31), blue), ((2,2), red)], 0, 0) on a
\* Frame that held red at (2, 2) and blue at (63, 31): three pixels were
\* cleared and three drawn, and the Frame holds the same colors again
C30_Witness ==
    /\ ctl.m = "frame" /\ ctl.n = 3
    /\ ctl.call.name = "moveSelection" /\ ctl.call.args = <<0, 0>>
    /\ ctl.call.color = <<(<<(<<2, 2>>), Red>>), (<<(<<63, 31>>), Blue>>), (<<(<<2, 2>>), Red>>)>>
    /\ MarksOf("notify") = 6
    /\ frames[1].display[3][3] = Red
    /\ frames[1].display[32][64] = Blue

\* a moveSelection by (0, 0) whose listed color is not the one the Frame
\* held did change the Frame
C30_StaleWitness ==
    /\ ctl.m = "frame" /\ ctl.n = 1
    /\ ctl.call.name = "moveSelection" /\ ctl.call.args = <<0, 0>>
    /\ frames[1].display[3][3] = Red

\* ---------------------------------------------------------------------
\* C31: moveSelection(pixels, dx, dy) returns normally and leaves, at
\* every position of the window: the color of the last listed pixel
\* whose destination (x + dx, y + dy) is that position, if there is one;
\* otherwise black, if the position is a listed original; otherwise the
\* color it had.  So a destination that is another listed pixel's
\* original ends with the moved color, and a listed pixel whose
\* destination is outside the window is erased and not drawn.
\* ---------------------------------------------------------------------
C31_ClearThenDraw ==
    [][ctl'.call.name = "moveSelection" =>
          LET pixels == ctl'.call.color
              dx == ctl'.call.args[1]
              dy == ctl'.call.args[2]
              movedTo(x, y) == {i \in 1..Len(pixels) :
                                   pixels[i][1][1] + dx = x /\ pixels[i][1][2] + dy = y}
              listed(x, y) == \E i \in 1..Len(pixels) : pixels[i][1] = <<x, y>>
              last(S) == CHOOSE i \in S : \A j \in S : j <= i
          IN  /\ ctl'.exc = NoExc
              /\ \A y \in 0..(Height - 1) : \A x \in 0..(Width - 1) :
                    frames'[1].display[y + 1][x + 1] =
                        IF movedTo(x, y) # {} THEN pixels[last(movedTo(x, y))][2]
                        ELSE IF listed(x, y) THEN Black
                        ELSE frames[1].display[y + 1][x + 1]]_vars

\* moveSelection([((2,2), red), ((3,2), black)], 1, 0): (3, 2), the
\* original of the second pixel and the destination of the first, is red
\* and (2, 2) is black
C31_Witness ==
    /\ ctl.m = "frame"
    /\ ctl.call.name = "moveSelection" /\ ctl.call.args = <<1, 0>>
    /\ ctl.call.color = <<(<<(<<2, 2>>), Red>>), (<<(<<3, 2>>), Black>>)>>
    /\ frames[1].display[3][3] = Black
    /\ frames[1].display[3][4] = Red
    /\ frames[1].display[3][5] = Black

\* moveSelection([((63,31), blue)], 1, 1): the destination (64, 32) is
\* outside the window, the pixel is erased and nothing is drawn
C31_ErasedWitness ==
    /\ ctl.m = "frame" /\ ctl.n = 2
    /\ ctl.call.name = "moveSelection" /\ ctl.call.args = <<1, 1>>
    /\ ctl.call.color = <<(<<(<<63, 31>>), Blue>>)>>
    /\ MarksOf("notify") = 1
    /\ frames[1].display[32][64] = Black

\* ---------------------------------------------------------------------
\* Reading a line off the Frame
\* ---------------------------------------------------------------------
\* the positions of the window that hold the color the line is drawn in
Drawn == {p \in (0..(Width - 1)) \X (0..(Height - 1)) : frames[1].display[p[2] + 1][p[1] + 1] = Red}

\* the number of steps along the longer axis from the first endpoint to
\* the second
LineLength ==
    IF Abs(ctl.x2 - ctl.from[1]) >= Abs(ctl.y2 - ctl.from[2])
    THEN Abs(ctl.x2 - ctl.from[1]) ELSE Abs(ctl.y2 - ctl.from[2])

\* the grid points k steps along the longer axis that lie no further than
\* half a pixel from the straight segment between the endpoints: one
\* point, or two where the segment passes midway between them
Nearest(k) ==
    LET X == ctl.x2 - ctl.from[1]
        Y == ctl.y2 - ctl.from[2]
        near(x, y) == 2 * Abs(X * (y - ctl.from[2]) - Y * (x - ctl.from[1])) <= LineLength
        lo(a, b) == IF a < b THEN a ELSE b
        hi(a, b) == IF a < b THEN b ELSE a
    IN  IF Abs(X) >= Abs(Y)
        THEN {p \in {ctl.from[1] + (IF X < 0 THEN -k ELSE k)}
                        \X (lo(ctl.from[2], ctl.y2)..hi(ctl.from[2], ctl.y2)) : near(p[1], p[2])}
        ELSE {p \in (lo(ctl.from[1], ctl.x2)..hi(ctl.from[1], ctl.x2))
                        \X {ctl.from[2] + (IF Y < 0 THEN -k ELSE k)} : near(p[1], p[2])}

\* ---------------------------------------------------------------------
\* C32: makeLine with any integer endpoints, inside the window or not,
\* never fails and writes only pixels of the window: when it returns, the
\* pixels that hold the line's color are the in-window points of the
\* Bresenham path (one grid point per step along the longer axis, both
\* endpoints included, each within half a pixel of the segment), each
\* written once, and every other pixel is unchanged.
\* ---------------------------------------------------------------------
C32_LineClipped ==
    /\ ctl.m # "raised"
    /\ ctl.m \in {"while", "drawn"} =>
          /\ Drawn \subseteq UNION {Nearest(k) : k \in 0..LineLength}
          /\ \A y \in 1..Height : \A x \in 1..Width : frames[1].display[y][x] \in {Red, Black}
          /\ MarksOf("notify") = Cardinality(Drawn)
    /\ ctl.m = "drawn" =>
          /\ Nearest(0) = {ctl.from}
          /\ Nearest(LineLength) = {<<ctl.x2, ctl.y2>>}
          /\ \A k \in 0..LineLength :
                /\ Nearest(k) # {}
                /\ Cardinality(Nearest(k) \cap Drawn) <= 1
                /\ (\A p \in Nearest(k) : InWindow(p[1], p[2])) =>
                      Cardinality(Nearest(k) \cap Drawn) = 1

\* the line from (-2, 33) to (65, -1) crossed the window: it entered and
\* left it, and 63 pixels were written, from (1, 31) to (63, 0)
C32_Witness ==
    /\ ctl.m = "drawn"
    /\ ctl.from = <<-2, 33>> /\ ctl.x2 = 65 /\ ctl.y2 = -1
    /\ Cardinality(Drawn) = 63
    /\ {<<1, 31>>, <<63, 0>>} \subseteq Drawn
    /\ ctl.exc = NoExc

\* a line that lies outside the window wrote nothing
C32_OutsideWitness ==
    /\ ctl.m = "drawn"
    /\ ctl.from = <<-2, -1>> /\ ctl.x2 = 65 /\ ctl.y2 = -1
    /\ Drawn = {}
    /\ MarksOf("notify") = 0

\* a steep line with both endpoints inside
C32_SteepWitness ==
    /\ ctl.m = "drawn"
    /\ ctl.from = <<3, 2>> /\ ctl.x2 = 0 /\ ctl.y2 = 0
    /\ Cardinality(Drawn) = 4

\* ---------------------------------------------------------------------
\* C33: every Frame the interpreter holds, whether made by Frame{}, by a
\* Frame declaration without initializer or by LoadQGC, has exactly 32
\* rows of exactly 64 pixels, at every moment of the run.
\* ---------------------------------------------------------------------
C33_FrameShape ==
    \A f \in 1..Len(frames) :
        /\ Len(frames[f].display) = Height
        /\ \A y \in 1..Height : Len(frames[f].display[y]) = Width

\* LoadQGC{"short.qgc"} returned a Frame of one row of two pixels; the
\* program painted its pixel (0, 0) and published it
C33_Witness ==
    /\ ctl.m = "ran"
    /\ Len(frames) = 1
    /\ Len(frames[1].display) = 1
    /\ Len(frames[1].display[1]) = 2
    /\ frames[1].display[1][1] = Color(IntV(1), IntV(1), IntV(1))
    /\ Len(published) = 1

\* every Frame whose display was not taken from a file has 32 rows of 64
\* pixels, whatever the program did to it
C33_BuiltFrameShape ==
    \A f \in 1..Len(frames) :
        \/ \E path \in DOMAIN QGCFiles :
              /\ Len(frames[f].display) = Len(QGCFiles[path].pixels)
              /\ frames[f].display[1][2] = QGCFiles[path].pixels[1][2]
        \/ /\ Len(frames[f].display) = Height
           /\ \A y \in 1..Height : Len(frames[f].display[y]) = Width

\* a Frame loaded from a file that saveQGC wrote has the shape
C33_SavedWitness ==
    /\ ctl.m = "ran"
    /\ Len(frames) = 1
    /\ frames[1].display[1][2] = JsonPixel(0, 0, 0)
    /\ Len(frames[1].display) = Height

\* ---------------------------------------------------------------------
\* C34: frame_to_rgb565_bytes returns exactly 4096 bytes in row-major
\* order: the pixel (x, y) with channels r in 0..31, g in 0..63 and b in
\* 0..31 gives the bytes lo, hi at the offsets 2 * (64 * y + x) and the
\* next one, with lo + 256 * hi = r * 2048 + g * 32 + b, so that shifting
\* and masking the 16-bit little-endian value gives (r, g, b) again.
\* ---------------------------------------------------------------------
C34_Rgb565Bytes ==
    (ctl.m = "bytes" /\ Len(frames[1].display) = Height) =>
        /\ ctl.exc = NoExc
        /\ Len(ctl.val) = 4096
        /\ \A i \in 1..4096 : ctl.val[i] \in 0..255
        /\ \A y \in 0..(Height - 1) : \A x \in 0..(Width - 1) :
              LET rgb == frames[1].display[y + 1][x + 1].v
                  lo == ctl.val[2 * (64 * y + x) + 1]
                  hi == ctl.val[2 * (64 * y + x) + 2]
                  value == lo + 256 * hi
              IN  /\ value = rgb[1].v * 2048 + rgb[2].v * 32 + rgb[3].v
                  /\ (value \div 2048) % 32 = rgb[1].v
                  /\ (value \div 32) % 64 = rgb[2].v
                  /\ value % 32 = rgb[3].v

\* the pixel (63, 0) held (21, 42, 10): its bytes 0x4A, 0xAD are at the
\* offsets 126 and 127, between the 0xFF bytes of its white neighbours
C34_Witness ==
    /\ ctl.m = "bytes"
    /\ ctl.at = <<63, 0>>
    /\ frames[1].display[1][64] = Color(IntV(21), IntV(42), IntV(10))
    /\ ctl.val[127] = 74
    /\ ctl.val[128] = 173
    /\ ctl.val[126] = 255
    /\ ctl.val[129] = 255

\* a Frame of another shape is refused with a ValueError
C34_ShapeWitness ==
    /\ ctl.m = "bytes"
    /\ Len(frames[1].display) = 1
    /\ ctl.exc = PyError("ValueError")

\* ---------------------------------------------------------------------
\* C35: in the debugger driver's continue mode with the breakpoints B,
\* a tick of the timer advances only past StepInfos whose line is not in
\* B and stops, with the controls shown, at the first StepInfo whose line
\* is in B, before the statement of that StepInfo has started; otherwise
\* it reaches the end of the sequence or uses up its 200 iterations and
\* runs on.  Continue pressed on a StepInfo whose line is in B advances
\* past it first (so its statement runs and the driver makes progress)
\* and restarts the timer; pressed elsewhere it restarts the timer where
\* it is.  For StepInfos on the lines 1, 2, 3 and B = {2} the lines seen
\* are 1, 2 at the stop and 1, 2, 3 after Continue.
\* ---------------------------------------------------------------------
C35_ContinueMode ==
    [][/\ ctl'.did = "_debug_tick" =>
             /\ ctl.iter /\ ctl.current # 0
             /\ \A j \in ctl.current..(IF ctl'.iter THEN ctl'.current - 1 ELSE Len(ctl.steps)) :
                   ctl.steps[j] \notin ctl.bps
             /\ (ctl'.iter /\ ~ctl'.timer) =>
                   /\ ctl.steps[ctl'.current] \in ctl.bps
                   /\ ctl'.controls
                   /\ ctl'.stop = ctl'.current
                   /\ ctl'.ran = ctl'.current - 1
             /\ (ctl'.iter /\ ctl'.timer) =>
                   /\ ctl'.current = ctl.current + _debug_steps_per_tick
                   /\ ~ctl'.controls
             /\ ~ctl'.iter => ctl'.ran = Len(ctl.steps)
       /\ (ctl'.did = "_debug_continue" /\ ctl.iter /\ ctl.current # 0) =>
             /\ ctl.steps[ctl.current] \in ctl.bps =>
                   /\ ctl'.ran = ctl.current
                   /\ ctl'.iter => ctl'.current = ctl.current + 1
                   /\ ~ctl'.iter => ctl.current = Len(ctl.steps)
             /\ ctl.steps[ctl.current] \notin ctl.bps =>
                   /\ ctl'.iter
                   /\ ctl'.current = ctl.current
             /\ ctl'.iter => ctl'.timer /\ ctl'.mode = "continue" /\ ~ctl'.controls
       /\ (ctl.steps = <<1, 2, 3>> /\ ctl'.bps = {2}) =>
             /\ (ctl'.did = "_debug_tick" /\ ctl.did = "_run_debugger") =>
                   ctl'.seen = <<1, 2>> /\ ctl'.controls /\ ctl'.ran = 1
             /\ (ctl'.did = "_debug_continue" /\ ctl.did = "_debug_tick") =>
                   ctl'.seen = <<1, 2, 3>> /\ ctl'.timer /\ ctl'.ran = 2
      ]_vars

\* the run of the three statements continued from the breakpoint on line
\* 2: the lines seen are 1, 2, 3 and the timer runs again
C35_Witness ==
    /\ ctl.m = "editor"
    /\ ctl.steps = <<1, 2, 3>> /\ ctl.bps = {2}
    /\ ctl.did = "_debug_continue"
    /\ ctl.stop = 2
    /\ ctl.seen = <<1, 2, 3>>
    /\ ctl.timer /\ ~ctl.controls

\* the same run stopped on line 2, whose statement has not started
C35_StoppedWitness ==
    /\ ctl.m = "editor"
    /\ ctl.steps = <<1, 2, 3>> /\ ctl.bps = {2}
    /\ ctl.did = "_debug_tick"
    /\ ctl.seen = <<1, 2>>
    /\ ctl.ran = 1
    /\ ctl.controls /\ ~ctl.timer

\* a tick used up its 200 iterations and the timer runs on; the next
\* tick stopped on the breakpoint behind them
C35_LongWitness ==
    /\ ctl.m = "editor"
    /\ ctl.did = "_debug_tick"
    /\ ctl.bps = {2, 3}
    /\ ctl.current = _debug_steps_per_tick + 3
    /\ ctl.stop = ctl.current
    /\ ctl.controls

\* ---------------------------------------------------------------------
\* C36: while send_frame_bytes replaces the destination file, the file
\* that the destination path names, the file a reader has opened and the
\* bytes a reader has read are always a complete frame of 4096 bytes,
\* the previous one or one a sender has renamed into place, never an
\* empty or partly written file: a sender writes only to its temp
\* sibling, which is not the destination, and renames it over the
\* destination only when all 4096 bytes are in it; a frame of another
\* size is refused before any file is touched.
\* ---------------------------------------------------------------------
C36_AtomicReplace ==
    /\ ctl.dir.dest # 0 =>
          /\ ctl.inodes[ctl.dir.dest].len = FRAME_BYTE_SIZE
          /\ ctl.inodes[ctl.dir.dest].frame \in ctl.replaced
    /\ ctl.reader.pc = "opened" => ctl.inodes[ctl.reader.inode].len = FRAME_BYTE_SIZE
    /\ ctl.reader.got.frame # -1 =>
          /\ ctl.reader.got.len = FRAME_BYTE_SIZE
          /\ ctl.reader.got.frame \in ctl.replaced
    /\ \A s \in Senders :
          /\ ctl.sender[s].pc \in {"write", "flush", "fsync", "replace", "OSError"} =>
                /\ ctl.sender[s].inode # ctl.dir.dest
                /\ ctl.sender[s].inode = ctl.dir.tmp[s]
          /\ ctl.sender[s].pc = "replace" =>
                ctl.inodes[ctl.sender[s].inode].len = FRAME_BYTE_SIZE
          /\ ctl.sender[s].pc \in {"utime", "done"} => ctl.sender[s].frame \in ctl.replaced
          /\ ctl.sender[s].pc \in {"send_frame_bytes", "ValueError", "open"} =>
                ctl.sender[s].inode = 0
          /\ ctl.sender[s].frame \in ctl.replaced => ctl.sender[s].size = FRAME_BYTE_SIZE

\* a reader has the previous file open while the first sender's temp
\* sibling holds 2048 bytes and the second sender has put its frame in
\* place: the reader will read the previous frame whole
C36_Witness ==
    /\ ctl.m = "send"
    /\ ctl.reader.pc = "opened" /\ ctl.reader.inode = 1
    /\ ctl.sender[1].pc = "flush" /\ ctl.inodes[ctl.sender[1].inode].len = 2048
    /\ ctl.sender[2].pc = "done"
    /\ ctl.inodes[ctl.dir.dest].frame = 2

\* the reader read the first sender's frame before the second replaced it
C36_ReadWitness ==
    /\ ctl.m = "send"
    /\ ctl.reader.got = [frame |-> 1, len |-> FRAME_BYTE_SIZE]
    /\ ctl.inodes[ctl.dir.dest].frame = 2
    /\ ctl.sender[1].pc = "done" /\ ctl.sender[2].pc = "done"

\* a frame of 4095 bytes is refused and a failed write leaves the
\* destination as it was
C36_RefusedWitness ==
    /\ ctl.m = "send"
    /\ ctl.sender[2].pc = "ValueError"
    /\ ctl.sender[1].pc = "OSError" /\ ctl.inodes[ctl.sender[1].inode].len = 1
    /\ ctl.dir.dest = 1
    /\ ctl.reader.got = [frame |-> 0, len |-> FRAME_BYTE_SIZE]
\* ---------------------------------------------------------------------
\* C37: when a "<" follows a primary expression the parser produces an
\* IndexExpr only if a complete < index > can be consumed; otherwise the
\* cursor is restored to the "<", which is parsed as the comparison
\* operator: a < b not followed by ">" yields BinaryOp("<", a, b), and
\* parsing ends with an AST or with a ParseError, never another failure.
\* ---------------------------------------------------------------------
C37_IndexOrCompare ==
    ctl.m = "parsed" =>
        LET w(s) == <<[c |-> "word", text |-> s]>>
            o(s) == <<[c |-> "op", text |-> s]>>
            n(s) == <<[c |-> "digits", text |-> s]>>
            a == Var("a", 1)
            b == Var("b", 1)
            c == Var("c", 1)
            less == w("a") \o o("<") \o w("b")
            index == w("l") \o o("<") \o n("0") \o o(">")
            nested == w("a") \o o("<") \o w("b") \o o("<") \o w("c") \o o(">")
            chained == w("a") \o o("<") \o w("b") \o o(">") \o w("c")
            open == w("a") \o o("<")
            yields(e, node) ==
                /\ ctl.source = e \o o(".") =>
                       ctl.err = "" /\ program = <<ExprStmt(node, 1)>>
                /\ ctl.source = w("Publish") \o e \o o(".") =>
                       ctl.err = "" /\ program = <<PublishStmt(node, 1)>>
                /\ ctl.source = w("x") \o o("=") \o e \o o(".") =>
                       ctl.err = "" /\ program = <<Assign(Var("x", 1), node, 1)>>
        IN  /\ ctl.err \in {"", "ParseError"}
            /\ yields(less, BinaryOp("<", a, b, 1))
            /\ yields(index, IndexExpr(Var("l", 1), Literal(IntV(0), 1), 1))
            /\ yields(nested, BinaryOp("<", a, IndexExpr(b, c, 1), 1))
            /\ \A h \in {<<>>, w("Publish"), w("x") \o o("=")}, d \in {<<>>, o(".")} :
                   ctl.source \in {h \o chained \o d, h \o open \o d} =>
                       ctl.err = "ParseError"

\* a < b. was parsed: the index attempt was abandoned at the "." and the
\* statement is the comparison
C37_Witness ==
    /\ ctl.m = "parsed"
    /\ ctl.source = <<[c |-> "word", text |-> "a"], [c |-> "op", text |-> "<"],
                      [c |-> "word", text |-> "b"], [c |-> "op", text |-> "."]>>
    /\ ctl.err = ""
    /\ program[1].expr.k = "BinaryOp"

\* a < b < c >. was parsed: the inner index is complete, the outer one is
\* abandoned and becomes the comparison
C37_NestedWitness ==
    /\ ctl.m = "parsed"
    /\ Len(ctl.source) = 7
    /\ ctl.source[1].text = "a"
    /\ ctl.err = ""
    /\ program[1].k = "ExprStmt"
    /\ program[1].expr.right.k = "IndexExpr"

\* a < b > c. was parsed: the index a<b> is complete and the statement
\* cannot go on with c
C37_ChainedWitness ==
    /\ ctl.m = "parsed"
    /\ Len(ctl.source) = 6
    /\ ctl.source[1].text = "a"
    /\ ctl.source[4] = [c |-> "op", text |-> ">"]
    /\ ctl.err = "ParseError"
\* ---------------------------------------------------------------------
\* C38: a return executed outside any function call (at top level, also
\* inside a top-level If, While or For body) is not accepted silently: the
\* run stops with a RuntimeErrorWithLine carrying the line of the enclosing
\* top-level item, and no later top-level item runs or emits a StepInfo.
\* Stepping: the signal leaves the generators without any effect and ends
\* the sequence with that error.  Eager: the outcome is that of the items
\* up to the one whose execute_stmt raised the signal.
\* ---------------------------------------------------------------------
C38_TopLevelReturn ==
    /\ [][LET signal == /\ ctl.m = "exc"
                        /\ ctl.exc.type = "ReturnSignal"
                        /\ \A i \in 1..Len(stack) : stack[i].g # "call"
          IN  /\ ctl.m = "failed" => FALSE
              /\ signal =>
                    /\ envs' = envs /\ frames' = frames /\ lists' = lists
                    /\ published' = published /\ sent' = sent /\ trace' = trace
                    /\ stack' = Pop(stack)
                    /\ IF Top(stack).g = "program"
                       THEN /\ ctl'.m = "failed"
                            /\ ctl'.exc.type = "RuntimeErrorWithLine"
                            /\ ctl'.exc.line = program[Top(stack).i].line
                       ELSE ctl' = ctl]_vars
    /\ [](ctl.m = "ran" =>
            LET IsDecl(item) == item.k = "FunctionDecl"
                Cut(i) == SubSeq(program, 1, i)
                             \o SelectSeq(SubSeq(program, i + 1, Len(program)), IsDecl)
                Before(i) == execute_program(NewInterpreter(FALSE), Cut(i - 1))
                stops(i, r) ==
                    r.exc.type = "ReturnSignal" =>
                        /\ ctl.exc.type = "RuntimeErrorWithLine"
                        /\ ctl.exc.line = program[i].line
                        /\ envs = r.w.envs /\ frames = r.w.frames /\ lists = r.w.lists
                        /\ published = r.w.published /\ sent = r.w.sent
                item(i, before) ==
                    ~Failed(before) =>
                        stops(i, Call("execute_stmt", before.w, <<program[i], 1>>))
            IN  \A i \in 1..Len(program) : ~IsDecl(program[i]) => item(i, Before(i)))

\* the step sequence of Frame f. If (true): While (true): f->(1 1) = ...
\* return (1). ! ! f->(0 0) = ... ended with the error at the line of the
\* If: the pixel of the loop body is painted, the one after the If is not,
\* and no StepInfo of line 6 was emitted
C38_Witness ==
    /\ ctl.m = "failed"
    /\ Len(program) = 3 /\ program[2].k = "IfStmt" /\ program[2].then_body[1].k = "WhileStmt"
    /\ ctl.exc.type = "RuntimeErrorWithLine" /\ ctl.exc.line = 2
    /\ frames[1].display[2][2] # BlankDisplay[2][2]
    /\ frames[1].display[1][1] = BlankDisplay[1][1]
    /\ \A i \in 1..Len(trace) : trace[i].line # 6

\* the eager run of Frame f. return. f->(0 0) = (1 1 1). ended with the
\* error at line 2 and the pixel not painted
C38_EagerWitness ==
    /\ ctl.m = "ran"
    /\ Len(program) = 3 /\ program[2].k = "ReturnStmt"
    /\ ctl.exc.type = "RuntimeErrorWithLine" /\ ctl.exc.line = 2
    /\ Len(frames) = 1
    /\ frames[1].display[1][1] = BlankDisplay[1][1]

\* the eager run of Frame f. For int x in [0 1]: return. ... ! Publish f.
\* ended in the first iteration with the error at the line of the For and
\* nothing published
C38_ForWitness ==
    /\ ctl.m = "ran"
    /\ Len(program) = 3 /\ program[2].k = "ForStmt" /\ program[2].body[1].k = "ReturnStmt"
    /\ ctl.exc.type = "RuntimeErrorWithLine" /\ ctl.exc.line = 2
    /\ published = <<>>
    /\ frames[1].display[3][3] = BlankDisplay[3][3]
\* ---------------------------------------------------------------------
\* C39: every raster primitive terminates: makeLine's loop reaches
\* (x2, y2) after at most max(|x2-x1|, |y2-y1|) steps for any pair of
\* endpoints (every iteration that does not end the loop is one step, the
\* loop ends exactly at the second endpoint), and fill's work stack
\* empties after processing each of the 64x32 pixels at most once (every
\* iteration pops one entry, only a pixel processed for the first time is
\* written, and only a written pixel pushes entries, at most four).
\* ---------------------------------------------------------------------
C39_RasterTerminates ==
    /\ [](ctl.m \in {"while", "drawn"} =>
            /\ ctl.n <= LineLength
            /\ ctl.m = "drawn" => ctl.x1 = ctl.x2 /\ ctl.y1 = ctl.y2)
    /\ [][ctl.m = "while" =>
            \/ ctl'.m = "drawn" /\ ctl'.n = ctl.n
            \/ ctl'.m = "while" /\ ctl'.n = ctl.n + 1]_vars
    /\ [](ctl.m \in {"stack", "filled"} =>
            /\ ctl.visited \subseteq (0..(Width - 1)) \X (0..(Height - 1))
            /\ ctl.processed = Cardinality(ctl.visited)
            /\ ctl.written <= ctl.processed
            /\ ctl.pops + Len(ctl.stack) <= 1 + 4 * ctl.written
            /\ ctl.m = "filled" <=> ctl.stack = <<>>)
    /\ [][ctl.m = "stack" => ctl'.pops = ctl.pops + 1]_vars

\* the fill of the blank Frame from (0, 0) ended: each of the 2048 pixels
\* was processed once and written, in at most 1 + 4 * 2048 iterations
C39_WholeFrameWitness ==
    /\ ctl.m = "filled"
    /\ ctl.written = Width * Height
    /\ ctl.processed = Width * Height
    /\ ctl.pops > Width * Height
    /\ \A y \in 1..Height : \A x \in 1..Width : frames[1].display[y][x] = Red

\* the line from (-2, 33) to (65, -1), most of it outside the window,
\* ended at its second endpoint after 67 steps
C39_LineWitness ==
    /\ ctl.m = "drawn"
    /\ ctl.from = <<-2, 33>>
    /\ ctl.x1 = 65 /\ ctl.y1 = -1
    /\ ctl.n = 67

\* the fill from a pixel of the bar ended with the 32 pixels of the bar
\* written and their neighbours on both sides processed but not written
C39_Witness ==
    /\ ctl.m = "filled"
    /\ ctl.startx = 60
    /\ ctl.written = Height
    /\ ctl.processed = 3 * Height
====
